---- MODULE Spec2Model ----
(***************************************************************************)
(* The solve session of letterbounced: the solver store of the page        *)
(* (stores/solver-worker.ts), the web worker it talks to                   *)
(* (workers/solver-worker.ts) and the WASM entry points the worker calls   *)
(* (initialize_dictionary, solve_game, cancel_current_solve), which are    *)
(* modelled from the specification of the solver.                          *)
(*                                                                         *)
(* Two event loops run concurrently: the page's and the worker's.  A step  *)
(* of the model is one task of one of them: a call of the store's API, a   *)
(* message handler up to its next await, or the continuation of a handler  *)
(* after the promise it awaits has settled.                                *)
(***************************************************************************)
EXTENDS Integers, Sequences, FiniteSets, TLC

(* ------------------------------- bounds -------------------------------- *)

\* number of solvePuzzle calls explored
MaxSolves == 2
\* number of cancelSolve calls explored
MaxCancels == 1
\* largest duration (ms, rounded) a search is measured to take
MaxDuration == 0

(* ------------------------------ constants ------------------------------ *)

\* solvePuzzle(sides, maxSolutions = 10000)
DefaultMaxSolutions == 10000

\* null / a present value, for number | null and string | null
Null == <<>>
Some(x) == <<x>>

Ids == 1..MaxSolves
Durations == 0..MaxDuration

(* ------------------------------- letters ------------------------------- *)

\* the characters A-Z and a-z; strings of the program are built from
\* characters by concatenation, as join('') builds them
UpperLetters == <<"A", "B", "C", "D", "E", "F", "G", "H", "I", "J", "K", "L", "M",
                  "N", "O", "P", "Q", "R", "S", "T", "U", "V", "W", "X", "Y", "Z">>
LowerLetters == <<"a", "b", "c", "d", "e", "f", "g", "h", "i", "j", "k", "l", "m",
                  "n", "o", "p", "q", "r", "s", "t", "u", "v", "w", "x", "y", "z">>
Range(s) == {s[k] : k \in DOMAIN s}

\* String.prototype.toUpperCase / toLowerCase, for one character
ToUpperCase(c) ==
  IF c \in Range(LowerLetters)
    THEN UpperLetters[CHOOSE k \in DOMAIN LowerLetters : LowerLetters[k] = c]
    ELSE c
ToLowerCase(c) ==
  IF c \in Range(UpperLetters)
    THEN LowerLetters[CHOOSE k \in DOMAIN UpperLetters : UpperLetters[k] = c]
    ELSE c

\* the strings of exactly three lower-case letters
ThreeLetterStrings ==
  {a \o b \o c : a \in Range(LowerLetters), b \in Range(LowerLetters),
                 c \in Range(LowerLetters)}

(* ------------------------------- inputs -------------------------------- *)

\* sides as App.svelte builds them: top, right, bottom, left, lower case
Neurotypical == <<"nuo", "ert", "lcp", "yia">>
NoVowels == <<"bcd", "fgh", "mnp", "jkl">>
\* a request without sides: the worker reads payload?.sides ?? []
NoSides == <<>>

\* the (sides, maxSolutions) pairs solvePuzzle is called with
SolveInputs ==
  { <<Neurotypical, DefaultMaxSolutions>>, <<Neurotypical, 1>>,
    <<NoVowels, DefaultMaxSolutions>>, <<NoSides, DefaultMaxSolutions>> }

(* ------------------------------ the solver ----------------------------- *)
(* The puzzle word filter and the chain solver behind solve_game, as the   *)
(* specification of the solver describes them.  Words and sides are        *)
(* sequences of lower-case characters; a dictionary is a sequence of words *)
(* in rank order.                                                          *)

\* the longest chain the search tries
MaxChainLength == 2

\* the minimum playable word length
MinWordLength == 3

\* the dictionary loader: rank is the position in the artifact, from 0
DictionaryEntries(words) ==
  [k \in 1..Len(words) |-> [word |-> words[k], rank |-> k - 1]]

\* the letter set of a puzzle, and the side a letter is on
LetterSet(sides) == UNION {Range(sides[s]) : s \in DOMAIN sides}
SideIndex(sides, letter) == CHOOSE s \in DOMAIN sides : letter \in Range(sides[s])

\* a filter that does not look at the sides of consecutive letters
IsPlayableOnAnySide(word, sides) ==
  /\ Len(word) >= MinWordLength
  /\ \A k \in 1..Len(word) : word[k] \in LetterSet(sides)

\* the puzzle word filter: every letter is one of the puzzle's, and no two
\* consecutive letters are on the same side
IsPlayable(word, sides) ==
  /\ Len(word) >= MinWordLength
  /\ \A k \in 1..Len(word) : word[k] \in LetterSet(sides)
  /\ \A k \in 1..(Len(word) - 1) :
       SideIndex(sides, word[k]) # SideIndex(sides, word[k + 1])

PlayableWords(words, sides) ==
  SelectSeq(DictionaryEntries(words), LAMBDA e : IsPlayable(e.word, sides))

\* the chains of exactly k playable words: each word starts with the letter
\* the word before it ends with
RECURSIVE ChainsOfLength(_, _)
ChainsOfLength(playable, k) ==
  IF k = 1 THEN {<<e>> : e \in Range(playable)}
  ELSE {chain \in {Append(c, e) : c \in ChainsOfLength(playable, k - 1),
                                  e \in Range(playable)} :
          chain[k - 1].word[Len(chain[k - 1].word)] = chain[k].word[1]}

Coverage(chain) == UNION {Range(chain[k].word) : k \in DOMAIN chain}

\* the score of a chain: the sum of the ranks of its words
RECURSIVE AggregateScore(_)
AggregateScore(chain) ==
  IF chain = <<>> THEN 0 ELSE chain[1].rank + AggregateScore(Tail(chain))

\* within a word count: lower score first, and of two chains with the same
\* score the one the depth-first search over the rank order finds first
RanksBefore(x, y) ==
  \E k \in DOMAIN x :
    /\ x[k].rank < y[k].rank
    /\ \A j \in 1..(k - 1) : x[j].rank = y[j].rank
BetterChain(x, y) ==
  \/ AggregateScore(x) < AggregateScore(y)
  \/ AggregateScore(x) = AggregateScore(y) /\ RanksBefore(x, y)

RECURSIVE BestFirst(_)
BestFirst(chains) ==
  IF chains = {} THEN <<>>
  ELSE LET best == CHOOSE x \in chains : \A y \in chains \ {x} : BetterChain(x, y)
       IN  <<best>> \o BestFirst(chains \ {best})

\* a search that puts the solutions of more words first
RECURSIVE SolutionsLongestFirst(_, _, _)
SolutionsLongestFirst(playable, sides, k) ==
  IF k > MaxChainLength THEN <<>>
  ELSE SolutionsLongestFirst(playable, sides, k + 1)
         \o BestFirst({chain \in ChainsOfLength(playable, k) :
                         Coverage(chain) = LetterSet(sides)})

\* the solutions of k, k+1, ..., MaxChainLength words, best first
RECURSIVE SolutionsFrom(_, _, _)
SolutionsFrom(playable, sides, k) ==
  IF k > MaxChainLength THEN <<>>
  ELSE BestFirst({chain \in ChainsOfLength(playable, k) :
                    Coverage(chain) = LetterSet(sides)})
         \o SolutionsFrom(playable, sides, k + 1)

\* a solver that keeps the last max_solutions solutions of the order
SolveChainsLast(words, sides, maxSolutions) ==
  LET all == SolutionsFrom(PlayableWords(words, sides), sides, 1)
  IN  IF Len(all) <= maxSolutions THEN all
      ELSE SubSeq(all, Len(all) - maxSolutions + 1, Len(all))

\* solve(sides, max_solutions) on a loaded dictionary
SolveChains(words, sides, maxSolutions) ==
  LET all == SolutionsFrom(PlayableWords(words, sides), sides, 1)
  IN  IF Len(all) <= maxSolutions THEN all ELSE SubSeq(all, 1, maxSolutions)

\* the solution string: '<hyphen-joined lowercase words>:<score>'
RECURSIVE Concat(_)
Concat(letters) ==
  IF letters = <<>> THEN "" ELSE letters[1] \o Concat(Tail(letters))
RECURSIVE HyphenJoined(_)
HyphenJoined(chain) ==
  IF Len(chain) = 1 THEN Concat(chain[1].word)
  ELSE Concat(chain[1].word) \o "-" \o HyphenJoined(Tail(chain))
SolutionString(chain) ==
  HyphenJoined(chain) \o ":" \o ToString(AggregateScore(chain))

\* the words of the model's dictionaries
WordNeurotypical == <<"n", "e", "u", "r", "o", "t", "y", "p", "i", "c", "a", "l">>
WordLit == <<"l", "i", "t">>
WordPin == <<"p", "i", "n">>
WordLet == <<"l", "e", "t">>
WordHat == <<"h", "a", "t">>

\* the puzzles given to the solver: the test's puzzle, the same letters with
\* two of them exchanged between sides, and the puzzle without a vowel
NeurotypicalSides == << <<"n", "u", "o">>, <<"e", "r", "t">>, <<"l", "c", "p">>,
                        <<"y", "i", "a">> >>
ExchangedSides == << <<"n", "u", "o">>, <<"e", "r", "i">>, <<"l", "c", "p">>,
                     <<"y", "t", "a">> >>
NoVowelsSides == << <<"b", "c", "d">>, <<"f", "g", "h">>, <<"m", "n", "p">>,
                    <<"j", "k", "l">> >>

\* the dictionary the worker fetches
SessionDictionary == <<WordNeurotypical, WordLit, WordPin, WordLet, WordHat>>

(* ------------------------ WASM entry points ---------------------------- *)

\* InvalidPuzzleError: the sides are not 4 groups of 3 letters (wrong slot
\* count, non-alphabetic letters)
ValidSides(sides) ==
  /\ Len(sides) = 4
  /\ \A k \in 1..4 : sides[k] \in ThreeLetterStrings

\* the chains the solver finds for a puzzle of the session, best first
NeurotypicalChains ==
  SolveChains(SessionDictionary, NeurotypicalSides, DefaultMaxSolutions)
AllChains(sides) == IF sides = Neurotypical THEN NeurotypicalChains ELSE <<>>

SolutionStrings(chains) == [k \in DOMAIN chains |-> SolutionString(chains[k])]

\* the ordered solution strings of a puzzle, "<words>:<score>", best first
AllSolutions(sides) == SolutionStrings(AllChains(sides))

\* solve_game resolves with at most max_solutions solutions, in order
SolveGameResult(sides, maxSolutions) ==
  LET all == AllSolutions(sides)
  IN  IF Len(all) <= maxSolutions THEN all ELSE SubSeq(all, 1, maxSolutions)

\* the message solve_game rejects with when the search noticed a stop signal
CancelledMessage == "Cancelled"
\* the message solve_game rejects with for malformed sides
InvalidPuzzleMessage == "Invalid puzzle"
\* messages that contain 'already in progress'
AlreadyInProgress == {"Solve already in progress"}

NoSearch == [status |-> "none", sides |-> NoSides, maxSolutions |-> 0, stop |-> FALSE]

\* every search still running is signalled to stop: it rejects with
\* 'Cancelled' if it reaches a cancellation checkpoint before it finishes,
\* and otherwise still delivers its result
StopAll(s) ==
  [i \in DOMAIN s |->
     IF s[i].status = "pending" THEN [s[i] EXCEPT !.stop = TRUE] ELSE s[i]]

\* solve_game(sides, max_solutions) for valid sides: supersedes the search
\* in flight and starts the new one; the promise returned is pending
SolveGameStart(s, id, sides, maxSolutions) ==
  [StopAll(s) EXCEPT ![id] = [status |-> "pending", sides |-> sides,
                              maxSolutions |-> maxSolutions, stop |-> FALSE]]

\* cancel_current_solve()
CancelCurrentSolve(s) == StopAll(s)

(* ------------------------------- state --------------------------------- *)

VARIABLES
  \* stores/solver-worker.ts (the page)
  worker,            \* the Worker object exists (worker !== null)
  currentSolveId,    \* the store's request counter
  solverReady,
  solving,
  solutions,
  solveStats,
  solverError,
  \* the two message channels: everything posted, and how much was handled
  inbox,             \* page -> worker
  inboxRead,
  outbox,            \* worker -> page
  outboxRead,
  \* workers/solver-worker.ts
  wasmReady,         \* the wasmReady promise is resolved
  w_currentSolveId,  \* the worker's currentSolveId: Null or Some(id)
  initPc,            \* where the INIT handler is
  dictionaryText,    \* what the fetch of DICTIONARY_URL delivered
  waiting,           \* handlers suspended at 'await wasmReady', in order
  \* the WASM module
  dictionaryInitialized,
  search,            \* the promises solve_game returned, by request id
  wasmTrace          \* the calls into the WASM module and the settlements of
                     \* the promises it returned, in order

storeVars == <<worker, currentSolveId, solverReady, solving, solutions,
               solveStats, solverError>>
workerVars == <<wasmReady, w_currentSolveId, initPc, dictionaryText, waiting>>
wasmVars == <<dictionaryInitialized, search, wasmTrace>>

VARIABLES
  \* stores/puzzle.ts
  puzzleFields,      \* the letters of the slots, in slot order
  playMode,
  playerSolution,    \* words, each a sequence of slot indices 0..11
  autoSaveEnabled,
  previousFields,
  storage,           \* the item 'letterBoxedPuzzle' of localStorage
  \* lib/PuzzleLoader.svelte
  loading,
  \* App.svelte
  mountPc,           \* where onMount is
  dirty,             \* the reactive auto-solve block is due to run
  throttled,         \* the call throttledSolve holds back: Null or Some(sides)
  \* the solver on its own
  chainSolver,       \* its dictionary and its latest solve
  \* the dictionary build script
  files              \* /tmp/dictionary.txt and data/dictionary.txt

puzzleVars == <<puzzleFields, playMode, playerSolution, autoSaveEnabled,
                previousFields, storage>>
appVars == <<loading, mountPc, dirty, throttled>>
sessionVars == <<storeVars, inbox, inboxRead, outbox, outboxRead, workerVars, wasmVars>>
solverVars == <<chainSolver, files>>
vars == <<sessionVars, puzzleVars, appVars, solverVars>>

\* Array(12).fill('')
NumSlots == 12
BlankFields == [k \in 1..NumSlots |-> ""]

\* the page as the modules of stores/puzzle.ts, PuzzleLoader and App leave it
\* when they are loaded, before onMount
PuzzleInit ==
  /\ puzzleFields = BlankFields
  /\ playMode = TRUE
  /\ playerSolution = <<>>
  /\ autoSaveEnabled = FALSE
  /\ previousFields = <<>>
  /\ loading = FALSE
  /\ mountPc = "start"
  /\ dirty = FALSE
  /\ throttled = Null

SessionInit ==
  /\ worker = FALSE
  /\ currentSolveId = 0
  /\ solverReady = FALSE
  /\ solving = FALSE
  /\ solutions = <<>>
  /\ solveStats = [totalCount |-> 0, duration |-> Null]
  /\ solverError = Null
  /\ inbox = <<>>
  /\ inboxRead = 0
  /\ outbox = <<>>
  /\ outboxRead = 0
  /\ wasmReady = FALSE
  /\ w_currentSolveId = Null
  /\ initPc = "idle"
  /\ dictionaryText = Null
  /\ waiting = <<>>
  /\ dictionaryInitialized = FALSE
  /\ search = [i \in Ids |-> NoSearch]
  /\ wasmTrace = <<>>

\* the solve session driven through the store's API, the page left as loaded
Init ==
  /\ SessionInit
  /\ PuzzleInit
  /\ storage = Null
  /\ chainSolver = Null
  /\ files = Null

(* --------------------- the store: stores/solver-worker.ts -------------- *)

NumCancels == Cardinality({k \in 1..Len(inbox) : inbox[k].type = "CANCEL"})

\* initializeSolverWorker(): creates the worker, registers the listener and
\* posts INIT; App.svelte calls it once, on mount
initializeSolverWorker ==
  /\ ~worker
  /\ worker' = TRUE
  /\ inbox' = Append(inbox, [type |-> "INIT"])
  /\ UNCHANGED <<currentSolveId, solverReady, solving, solutions, solveStats,
                 solverError, inboxRead, outbox, outboxRead, workerVars, wasmVars>>

\* solvePuzzle that leaves the solutions of the previous request in place
solvePuzzleKeepsSolutions(sides, maxSolutions) ==
  /\ currentSolveId < MaxSolves
  /\ IF ~worker
       THEN UNCHANGED <<currentSolveId, solving, solutions, solveStats,
                        solverError, inbox>>
       ELSE /\ currentSolveId' = currentSolveId + 1
            /\ solving' = TRUE
            /\ UNCHANGED solutions
            /\ solveStats' = [totalCount |-> 0, duration |-> Null]
            /\ solverError' = Null
            /\ inbox' = Append(inbox, [type |-> "SOLVE",
                                       solveId |-> currentSolveId + 1,
                                       sides |-> sides,
                                       maxSolutions |-> maxSolutions])
  /\ UNCHANGED <<worker, solverReady, inboxRead, outbox, outboxRead,
                 workerVars, wasmVars>>

\* solvePuzzle that takes the next id before it looks for the worker
solvePuzzleCountsFirst(sides, maxSolutions) ==
  /\ currentSolveId < MaxSolves
  /\ currentSolveId' = currentSolveId + 1
  /\ IF ~worker
       THEN UNCHANGED <<solving, solutions, solveStats, solverError, inbox>>
       ELSE /\ solving' = TRUE
            /\ solutions' = <<>>
            /\ solveStats' = [totalCount |-> 0, duration |-> Null]
            /\ solverError' = Null
            /\ inbox' = Append(inbox, [type |-> "SOLVE",
                                       solveId |-> currentSolveId + 1,
                                       sides |-> sides,
                                       maxSolutions |-> maxSolutions])
  /\ UNCHANGED <<worker, solverReady, inboxRead, outbox, outboxRead,
                 workerVars, wasmVars>>

\* solvePuzzle that takes a new id only when no solve is under way
solvePuzzleReuseId(sides, maxSolutions) ==
  /\ currentSolveId < MaxSolves
  /\ worker
  /\ currentSolveId' = IF solving THEN currentSolveId ELSE currentSolveId + 1
  /\ solving' = TRUE
  /\ solutions' = <<>>
  /\ solveStats' = [totalCount |-> 0, duration |-> Null]
  /\ solverError' = Null
  /\ inbox' = Append(inbox, [type |-> "SOLVE",
                             solveId |-> currentSolveId',
                             sides |-> sides,
                             maxSolutions |-> maxSolutions])
  /\ UNCHANGED <<worker, solverReady, inboxRead, outbox, outboxRead,
                 workerVars, wasmVars>>

\* solvePuzzle(sides, maxSolutions)
solvePuzzle(sides, maxSolutions) ==
  /\ currentSolveId < MaxSolves
  /\ IF ~worker
       THEN UNCHANGED <<currentSolveId, solving, solutions, solveStats,
                        solverError, inbox>>
       ELSE /\ currentSolveId' = currentSolveId + 1
            /\ solving' = TRUE
            /\ solutions' = <<>>
            /\ solveStats' = [totalCount |-> 0, duration |-> Null]
            /\ solverError' = Null
            /\ inbox' = Append(inbox, [type |-> "SOLVE",
                                       solveId |-> currentSolveId + 1,
                                       sides |-> sides,
                                       maxSolutions |-> maxSolutions])
  /\ UNCHANGED <<worker, solverReady, inboxRead, outbox, outboxRead,
                 workerVars, wasmVars>>

\* cancelSolve that also clears the results of the current request
cancelSolveAndClear ==
  /\ NumCancels < MaxCancels
  /\ IF worker
       THEN /\ inbox' = Append(inbox, [type |-> "CANCEL"])
            /\ solving' = FALSE
            /\ solutions' = <<>>
            /\ solveStats' = [totalCount |-> 0, duration |-> Null]
       ELSE UNCHANGED <<inbox, solving, solutions, solveStats>>
  /\ UNCHANGED <<worker, currentSolveId, solverReady, solverError, inboxRead,
                 outbox, outboxRead, workerVars, wasmVars>>

\* cancelSolve()
cancelSolve ==
  /\ NumCancels < MaxCancels
  /\ IF worker
       THEN /\ inbox' = Append(inbox, [type |-> "CANCEL"])
            /\ solving' = FALSE
       ELSE UNCHANGED <<inbox, solving>>
  /\ UNCHANGED <<worker, currentSolveId, solverReady, solutions, solveStats,
                 solverError, inboxRead, outbox, outboxRead, workerVars, wasmVars>>

\* StoreComplete without the comparison of solveId with currentSolveId
StoreCompleteAnyId(m) ==
  /\ solutions' = m.solutions
  /\ solving' = FALSE
  /\ solveStats' = [totalCount |-> m.totalCount, duration |-> Some(m.duration)]
  /\ UNCHANGED <<solverReady, solverError>>

\* the COMPLETE branch of the store's listener
StoreComplete(m) ==
  IF m.solveId = currentSolveId
    THEN /\ solutions' = m.solutions
         /\ solving' = FALSE
         /\ solveStats' = [totalCount |-> m.totalCount, duration |-> Some(m.duration)]
         /\ UNCHANGED <<solverReady, solverError>>
    ELSE UNCHANGED <<solverReady, solving, solutions, solveStats, solverError>>

\* the listener the store registers on the worker, for one message
StoreOnMessage ==
  /\ outboxRead < Len(outbox)
  /\ outboxRead' = outboxRead + 1
  /\ LET m == outbox[outboxRead + 1] IN
       CASE m.type = "READY" ->
              /\ solverReady' = TRUE
              /\ UNCHANGED <<solving, solutions, solveStats, solverError>>
         [] m.type = "COMPLETE" -> StoreComplete(m)
         [] m.type = "CANCELLED" ->
              /\ solving' = FALSE
              /\ UNCHANGED <<solverReady, solutions, solveStats, solverError>>
         [] m.type = "ERROR" ->
              /\ solverError' = Some(m.error)
              /\ solving' = FALSE
              /\ UNCHANGED <<solverReady, solutions, solveStats>>
  /\ UNCHANGED <<worker, currentSolveId, inbox, inboxRead, outbox, workerVars, wasmVars>>

(* --------------- the worker: workers/solver-worker.ts ------------------ *)

Post(m) == outbox' = Append(outbox, m)

\* wasmReady is resolved and handlers suspended on it have not resumed yet:
\* their continuations are microtasks, which run before any other task
MicrotasksPending == wasmReady /\ waiting # <<>>

\* errorMessage === 'Cancelled' || errorMessage.includes('already in progress')
IsCancellation(errorMessage) ==
  errorMessage = "Cancelled" \/ errorMessage \in AlreadyInProgress

\* CatchBlock that reports every failure as an ERROR
CatchBlockAllErrors(solveId, errorMessage) ==
  /\ Post([type |-> "ERROR", solveId |-> solveId, error |-> errorMessage])
  /\ w_currentSolveId' = Null

\* CatchBlock whose second branch is not an else: a cancellation is
\* reported as CANCELLED and as ERROR
CatchBlockFallsThrough(solveId, errorMessage) ==
  /\ IF IsCancellation(errorMessage)
       THEN outbox' = outbox \o
              <<[type |-> "CANCELLED", solveId |-> solveId],
                [type |-> "ERROR", solveId |-> solveId, error |-> errorMessage]>>
       ELSE Post([type |-> "ERROR", solveId |-> solveId, error |-> errorMessage])
  /\ w_currentSolveId' = Null

\* the catch block of the SOLVE branch
CatchBlock(solveId, errorMessage) ==
  /\ IF IsCancellation(errorMessage)
       THEN Post([type |-> "CANCELLED", solveId |-> solveId])
       ELSE Post([type |-> "ERROR", solveId |-> solveId, error |-> errorMessage])
  /\ w_currentSolveId' = Null

\* entries of wasmTrace
Called(solveId) == [ev |-> "solve_game", solveId |-> solveId]
Settled(solveId, how) == [ev |-> how, solveId |-> solveId]

\* the CANCEL branch after 'await wasmReady'
CancelBranch ==
  /\ search' = CancelCurrentSolve(search)
  /\ wasmTrace' = Append(wasmTrace, [ev |-> "cancel_current_solve"])
  /\ w_currentSolveId' = Null
  /\ UNCHANGED outbox

\* SolveBranch that records the request as the current one only when no
\* request is current
SolveBranchKeepMarker(m) ==
  IF ValidSides(m.sides)
       THEN /\ wasmTrace' = Append(wasmTrace, Called(m.solveId))
            /\ w_currentSolveId' = IF w_currentSolveId = Null THEN Some(m.solveId)
                                   ELSE w_currentSolveId
            /\ search' = SolveGameStart(search, m.solveId, m.sides, m.maxSolutions)
            /\ UNCHANGED outbox
       ELSE /\ wasmTrace' = wasmTrace \o <<Called(m.solveId), Settled(m.solveId, "rejected")>>
            /\ CatchBlock(m.solveId, InvalidPuzzleMessage)
            /\ \E s \in {search, StopAll(search)} :
                 search' = [s EXCEPT ![m.solveId] =
                              [status |-> "rejected", sides |-> m.sides,
                               maxSolutions |-> m.maxSolutions, stop |-> FALSE]]

\* the SOLVE branch after 'await wasmReady', up to 'await solve_game(...)';
\* malformed sides are rejected at once, before any search work, so the
\* catch block runs before any other task (whether the rejected call
\* signalled the search in flight is not determined by the specification)
SolveBranch(m) ==
  IF ValidSides(m.sides)
       THEN /\ wasmTrace' = Append(wasmTrace, Called(m.solveId))
            /\ w_currentSolveId' = Some(m.solveId)
            /\ search' = SolveGameStart(search, m.solveId, m.sides, m.maxSolutions)
            /\ UNCHANGED outbox
       ELSE /\ wasmTrace' = wasmTrace \o <<Called(m.solveId), Settled(m.solveId, "rejected")>>
            /\ CatchBlock(m.solveId, InvalidPuzzleMessage)
            /\ \E s \in {search, StopAll(search)} :
                 search' = [s EXCEPT ![m.solveId] =
                              [status |-> "rejected", sides |-> m.sides,
                               maxSolutions |-> m.maxSolutions, stop |-> FALSE]]

\* the message listener of the worker, for one message, up to its first
\* await that does not settle at once
WorkerOnMessage ==
  /\ inboxRead < Len(inbox)
  /\ ~MicrotasksPending
  /\ inboxRead' = inboxRead + 1
  /\ LET m == inbox[inboxRead + 1] IN
       CASE m.type = "INIT" ->
              /\ initPc' = "init"
              /\ UNCHANGED <<w_currentSolveId, waiting, outbox, search, wasmTrace>>
         [] m.type = "CANCEL" ->
              IF wasmReady
                THEN CancelBranch /\ UNCHANGED <<initPc, waiting>>
                ELSE /\ waiting' = Append(waiting, m)
                     /\ UNCHANGED <<initPc, w_currentSolveId, outbox, search, wasmTrace>>
         [] m.type = "SOLVE" ->
              IF wasmReady
                THEN SolveBranch(m) /\ UNCHANGED <<initPc, waiting>>
                ELSE /\ waiting' = Append(waiting, m)
                     /\ UNCHANGED <<initPc, w_currentSolveId, outbox, search, wasmTrace>>
  /\ UNCHANGED <<storeVars, inbox, outboxRead, wasmReady, dictionaryText,
                 dictionaryInitialized>>

\* ResumeWaiting that resumes the handler that suspended last
ResumeWaitingLast ==
  /\ MicrotasksPending
  /\ waiting' = SubSeq(waiting, 1, Len(waiting) - 1)
  /\ LET m == waiting[Len(waiting)] IN
       IF m.type = "CANCEL" THEN CancelBranch ELSE SolveBranch(m)
  /\ UNCHANGED <<storeVars, inbox, inboxRead, outboxRead, wasmReady, initPc,
                 dictionaryText, dictionaryInitialized>>

\* the next handler suspended at 'await wasmReady' resumes, in the order in
\* which the handlers suspended
ResumeWaiting ==
  /\ MicrotasksPending
  /\ waiting' = Tail(waiting)
  /\ LET m == Head(waiting) IN
       IF m.type = "CANCEL" THEN CancelBranch ELSE SolveBranch(m)
  /\ UNCHANGED <<storeVars, inbox, inboxRead, outboxRead, wasmReady, initPc,
                 dictionaryText, dictionaryInitialized>>

\* the catch block of the INIT branch
InitFailed(errorMessage) ==
  /\ Post([type |-> "ERROR", error |-> errorMessage])
  /\ initPc' = "failed"
  /\ UNCHANGED <<wasmReady, dictionaryInitialized, wasmTrace>>

\* 'await init()' settles
InitLoaded ==
  /\ initPc = "init"
  /\ \/ initPc' = "fetch" /\ UNCHANGED <<outbox, wasmReady, dictionaryInitialized, wasmTrace>>
     \/ InitFailed("init failed")
  /\ UNCHANGED <<storeVars, inbox, inboxRead, outboxRead, w_currentSolveId,
                 dictionaryText, waiting, search>>

\* 'await fetch(DICTIONARY_URL)' settles: a response that is ok, a response
\* that is not, or a network error
FetchSettled ==
  /\ initPc = "fetch"
  /\ \/ initPc' = "text" /\ UNCHANGED <<outbox, wasmReady, dictionaryInitialized, wasmTrace>>
     \/ InitFailed("Error fetching /dictionary.txt")
     \/ InitFailed("Failed to fetch")
  /\ UNCHANGED <<storeVars, inbox, inboxRead, outboxRead, w_currentSolveId,
                 dictionaryText, waiting, search>>

\* initialize_dictionary(data): fails when no entry survives
DictionaryLoads(text) == text # ""

\* TextSettled with READY posted before initialize_dictionary is called
TextSettledReadyFirst ==
  /\ initPc = "text"
  /\ \E text \in {"aa,1", ""} :
       /\ dictionaryText' = Some(text)
       /\ wasmReady' = TRUE
       /\ IF DictionaryLoads(text)
            THEN /\ dictionaryInitialized' = TRUE
                 /\ wasmTrace' = Append(wasmTrace, [ev |-> "initialize_dictionary"])
                 /\ Post([type |-> "READY"])
                 /\ initPc' = "done"
            ELSE /\ outbox' = outbox \o <<[type |-> "READY"],
                                           [type |-> "ERROR", error |-> "Dictionary is empty"]>>
                 /\ initPc' = "failed"
                 /\ UNCHANGED <<dictionaryInitialized, wasmTrace>>
  /\ UNCHANGED <<storeVars, inbox, inboxRead, outboxRead, w_currentSolveId,
                 waiting, search>>

\* 'await response.text()' settles; initialize_dictionary is called and,
\* when it returns, wasmReady is resolved and READY is posted
TextSettled ==
  /\ initPc = "text"
  /\ \E text \in {"aa,1", ""} :
       /\ dictionaryText' = Some(text)
       /\ IF DictionaryLoads(text)
            THEN /\ dictionaryInitialized' = TRUE
                 /\ wasmTrace' = Append(wasmTrace, [ev |-> "initialize_dictionary"])
                 /\ wasmReady' = TRUE
                 /\ Post([type |-> "READY"])
                 /\ initPc' = "done"
            ELSE InitFailed("Dictionary is empty")
  /\ UNCHANGED <<storeVars, inbox, inboxRead, outboxRead, w_currentSolveId,
                 waiting, search>>

\* AfterSolveGame without the check that the solve is still current
AfterSolveGameUnchecked(solveId, solutionsArray, duration) ==
  /\ Post([type |-> "COMPLETE", solveId |-> solveId,
           solutions |-> solutionsArray,
           totalCount |-> Len(solutionsArray),
           duration |-> duration])
  /\ w_currentSolveId' = Null

\* the SOLVE branch after 'await solve_game(...)' returned solutionsArray
AfterSolveGame(solveId, solutionsArray, duration) ==
  IF w_currentSolveId = Some(solveId)
    THEN /\ Post([type |-> "COMPLETE", solveId |-> solveId,
                  solutions |-> solutionsArray,
                  totalCount |-> Len(solutionsArray),
                  duration |-> duration])
         /\ w_currentSolveId' = Null
    ELSE UNCHANGED <<outbox, w_currentSolveId>>

\* a worker whose copy of the solutions is in the opposite order
ArrayFromBackwards(iterable) ==
  [k \in 1..Len(iterable) |-> iterable[Len(iterable) + 1 - k]]

\* Array.from(solutions): a new array with the elements in iteration order
ArrayFrom(iterable) == [k \in 1..Len(iterable) |-> iterable[k]]

\* a solver that finds nothing once cancel_current_solve has been called
SolveResolvedAfterCancel(solveId, duration) ==
  /\ ~MicrotasksPending
  /\ search[solveId].status = "pending"
  /\ search' = [search EXCEPT ![solveId].status = "fulfilled"]
  /\ wasmTrace' = Append(wasmTrace, Settled(solveId, "fulfilled"))
  /\ AfterSolveGame(solveId,
                    IF \E b \in 1..Len(wasmTrace) :
                         wasmTrace[b].ev = "cancel_current_solve"
                      THEN <<>>
                      ELSE ArrayFrom(SolveGameResult(search[solveId].sides,
                                                     search[solveId].maxSolutions)),
                    duration)
  /\ UNCHANGED <<storeVars, inbox, inboxRead, outboxRead, wasmReady, initPc,
                 dictionaryText, waiting, dictionaryInitialized>>

\* the promise of solve_game(sides, maxSolutions) for request solveId is
\* fulfilled (the search finished, with or without a stop signal it did not
\* get to notice) and the SOLVE handler resumes
SolveResolved(solveId, duration) ==
  /\ ~MicrotasksPending
  /\ search[solveId].status = "pending"
  /\ search' = [search EXCEPT ![solveId].status = "fulfilled"]
  /\ wasmTrace' = Append(wasmTrace, Settled(solveId, "fulfilled"))
  /\ AfterSolveGame(solveId,
                    ArrayFrom(SolveGameResult(search[solveId].sides,
                                              search[solveId].maxSolutions)),
                    duration)
  /\ UNCHANGED <<storeVars, inbox, inboxRead, outboxRead, wasmReady, initPc,
                 dictionaryText, waiting, dictionaryInitialized>>

\* the search of request solveId notices the stop signal: its promise is
\* rejected with 'Cancelled' and the SOLVE handler resumes in its catch block
SolveRejected(solveId) ==
  /\ ~MicrotasksPending
  /\ search[solveId].status = "pending"
  /\ search[solveId].stop
  /\ search' = [search EXCEPT ![solveId].status = "rejected"]
  /\ wasmTrace' = Append(wasmTrace, Settled(solveId, "rejected"))
  /\ CatchBlock(solveId, CancelledMessage)
  /\ UNCHANGED <<storeVars, inbox, inboxRead, outboxRead, wasmReady, initPc,
                 dictionaryText, waiting, dictionaryInitialized>>

(* --------------------------- specification ----------------------------- *)

Next ==
  \/ initializeSolverWorker /\ UNCHANGED <<puzzleVars, appVars, solverVars>>
  \/ \E in \in SolveInputs :
       solvePuzzle(in[1], in[2]) /\ UNCHANGED <<puzzleVars, appVars, solverVars>>
  \/ cancelSolve /\ UNCHANGED <<puzzleVars, appVars, solverVars>>
  \/ StoreOnMessage /\ UNCHANGED <<puzzleVars, appVars, solverVars>>
  \/ WorkerOnMessage /\ UNCHANGED <<puzzleVars, appVars, solverVars>>
  \/ ResumeWaiting /\ UNCHANGED <<puzzleVars, appVars, solverVars>>
  \/ InitLoaded /\ UNCHANGED <<puzzleVars, appVars, solverVars>>
  \/ FetchSettled /\ UNCHANGED <<puzzleVars, appVars, solverVars>>
  \/ TextSettled /\ UNCHANGED <<puzzleVars, appVars, solverVars>>
  \/ \E i \in Ids, d \in Durations :
       SolveResolved(i, d) /\ UNCHANGED <<puzzleVars, appVars, solverVars>>
  \/ \E i \in Ids : SolveRejected(i) /\ UNCHANGED <<puzzleVars, appVars, solverVars>>

Spec == Init /\ [][Next]_vars

\* both event loops run every task that is ready, every await of the INIT
\* handler settles and every search ends; the user's calls are not forced
FairSpec ==
  /\ Spec
  /\ WF_vars(StoreOnMessage)
  /\ WF_vars(WorkerOnMessage)
  /\ WF_vars(ResumeWaiting)
  /\ WF_vars(InitLoaded)
  /\ WF_vars(FetchSettled)
  /\ WF_vars(TextSettled)
  /\ \A i \in Ids : WF_vars(\E d \in Durations : SolveResolved(i, d) \/ SolveRejected(i))

(* ----------------------- the page: stores/puzzle.ts -------------------- *)

\* the page's event loop takes up a new task: onMount has loaded the saved
\* puzzle and no update of the App component is pending
PageIdle == mountPc # "start" /\ ~dirty

\* number of letters of the player's solution explored
MaxLetters == 2

\* the puzzle of tests/basic.spec.js, in slot order (top, right, left, bottom)
NeurotypicalFields == <<"N", "U", "O", "E", "R", "T", "Y", "I", "A", "L", "C", "P">>
\* the first sample puzzle of PuzzleLoader, 'JGHNVYEIDORP'
SampleValue == <<"J", "G", "H", "N", "V", "Y", "E", "I", "D", "O", "R", "P">>
ExamplePuzzles == {SampleValue}

\* an array element that was never assigned (a hole)
Undefined == "undefined"

\* null as JSON.stringify writes it and JSON.parse reads it
JsonNull == "null"

\* JSON.stringify of an array of strings: a hole or undefined becomes null
Stringified(fields) ==
  [k \in DOMAIN fields |-> IF fields[k] = Undefined THEN JsonNull ELSE fields[k]]

\* JSON.stringify({fields, playerSolution}) as the item of localStorage
Saved(fields, solution) ==
  Some([text |-> "json", fields |-> Stringified(fields),
        playerSolution |-> Some(solution)])

\* what localStorage can hold when the page is opened: nothing, text that is
\* not JSON, a puzzle saved with or without a player solution, and a record
\* whose fields are not 12
StoredItems ==
  { Null,
    Some([text |-> "garbage", fields |-> <<>>, playerSolution |-> Null]),
    Saved(NeurotypicalFields, << <<0, 3>> >>),
    Some([text |-> "json", fields |-> NeurotypicalFields, playerSolution |-> Null]),
    Some([text |-> "json", fields |-> <<"A">>, playerSolution |-> Null]) }

\* isPuzzleComplete / the test of App's reactive block: every() skips holes
IsPuzzleComplete(fields) ==
  \A k \in DOMAIN fields :
    fields[k] = Undefined \/ fields[k] \in Range(UpperLetters)

\* the subscriber of puzzleFields: previousFields differs from fields
PuzzleChanged(prev, fields) ==
  /\ Len(prev) > 0
  /\ \/ Len(prev) # Len(fields)
     \/ \E idx \in 1..Len(prev) : prev[idx] # fields[idx]

\* the stores of puzzle.ts as one value, to follow a handler through the
\* subscribers it triggers
PuzzleState ==
  [fields |-> puzzleFields, solution |-> playerSolution,
   previous |-> previousFields, item |-> storage]

\* playerSolution.set(solution) and its subscriber
SetPlayerSolution(s, autoSave, solution) ==
  IF autoSave
    THEN [s EXCEPT !.solution = solution, !.item = Saved(s.fields, solution)]
    ELSE [s EXCEPT !.solution = solution]

\* puzzleFields.set(fields) and its subscriber
SetPuzzleFields(s, autoSave, fields) ==
  IF autoSave
    THEN LET reset == IF PuzzleChanged(s.previous, fields)
                        THEN SetPlayerSolution([s EXCEPT !.fields = fields], autoSave, <<>>)
                        ELSE [s EXCEPT !.fields = fields]
         IN  [reset EXCEPT !.previous = fields,
                           !.item = Saved(fields, reset.solution)]
    ELSE [s EXCEPT !.fields = fields]

\* the stores take the values of s
PuzzleBecomes(s) ==
  /\ puzzleFields' = s.fields
  /\ playerSolution' = s.solution
  /\ previousFields' = s.previous
  /\ storage' = s.item

\* loadPuzzleFromStorage(): JSON.parse throws on text that is not JSON
LoadedFromStorage(s, autoSave) ==
  IF /\ s.item # Null
     /\ s.item[1].text = "json"
     /\ Len(s.item[1].fields) = NumSlots
    THEN LET saved == s.item[1]
         IN  SetPlayerSolution(SetPuzzleFields(s, autoSave, saved.fields), autoSave,
                               IF saved.playerSolution # Null
                                 THEN saved.playerSolution[1]
                                 ELSE << <<>> >>)
    ELSE s

\* the number of letters of a player solution
RECURSIVE NumLetters(_)
NumLetters(solution) ==
  IF solution = <<>> THEN 0
  ELSE Len(solution[1]) + NumLetters(Tail(solution))

\* appendLetterToPlayerSolution that starts a new word with every letter
appendLetterAsNewWord(letterIndex) ==
  /\ PageIdle
  /\ NumLetters(playerSolution) < MaxLetters
  /\ IF ~playMode \/ letterIndex < 0 \/ letterIndex > 11
       THEN UNCHANGED <<playerSolution, storage>>
       ELSE LET s == SetPlayerSolution(PuzzleState, autoSaveEnabled,
                                       Append(playerSolution, <<letterIndex>>))
            IN  playerSolution' = s.solution /\ storage' = s.item
  /\ UNCHANGED <<puzzleFields, playMode, autoSaveEnabled, previousFields,
                 appVars, sessionVars>>

\* the callback of playerSolution.update in appendLetterToPlayerSolution
Appended(solution, letterIndex) ==
  LET lastWord == IF solution # <<>> THEN solution[Len(solution)] ELSE <<>>
      pushed == Append(lastWord, letterIndex)
  IN  SubSeq(solution, 1, Len(solution) - 1) \o <<pushed>>

\* appendLetterToPlayerSolution without its checks of the mode and the index
appendLetterUnchecked(letterIndex) ==
  /\ PageIdle
  /\ NumLetters(playerSolution) < MaxLetters
  /\ LET s == SetPlayerSolution(PuzzleState, autoSaveEnabled,
                                Appended(playerSolution, letterIndex))
     IN  playerSolution' = s.solution /\ storage' = s.item
  /\ UNCHANGED <<puzzleFields, playMode, autoSaveEnabled, previousFields,
                 appVars, sessionVars>>

\* appendLetterToPlayerSolution(letterIndex)
appendLetterToPlayerSolution(letterIndex) ==
  /\ PageIdle
  /\ NumLetters(playerSolution) < MaxLetters
  /\ IF ~playMode \/ letterIndex < 0 \/ letterIndex > 11
       THEN UNCHANGED <<playerSolution, storage>>
       ELSE LET s == SetPlayerSolution(PuzzleState, autoSaveEnabled,
                                       Appended(playerSolution, letterIndex))
            IN  playerSolution' = s.solution /\ storage' = s.item
  /\ UNCHANGED <<puzzleFields, playMode, autoSaveEnabled, previousFields,
                 appVars, sessionVars>>

\* the callback of playerSolution.update in backspacePlayerSolution
Backspaced(solution) ==
  IF solution = <<>> THEN solution
  ELSE LET lastWord == solution[Len(solution)]
           newLastWord == SubSeq(lastWord, 1, Len(lastWord) - 1)
       IN  IF lastWord = <<>> THEN SubSeq(solution, 1, Len(solution) - 1)
           ELSE IF newLastWord = <<>> THEN SubSeq(solution, 1, Len(solution) - 1)
           ELSE SubSeq(solution, 1, Len(solution) - 1) \o <<newLastWord>>

\* backspacePlayerSolution()
backspacePlayerSolution ==
  /\ PageIdle
  /\ IF ~playMode
       THEN UNCHANGED <<playerSolution, storage>>
       ELSE LET s == SetPlayerSolution(PuzzleState, autoSaveEnabled,
                                       Backspaced(playerSolution))
            IN  playerSolution' = s.solution /\ storage' = s.item
  /\ UNCHANGED <<puzzleFields, playMode, autoSaveEnabled, previousFields,
                 appVars, sessionVars>>

(* ----------------- the page: LetterBox, PuzzleLoader, App -------------- *)

\* the slots the user types into and what the field holds after the key
\* stroke (target.value, as characters)
TypedSlots == {0}
\* the same with the last slot, for the page without its solver
PuzzleTypedSlots == TypedSlots \cup {11}
TypedValues == {<<>>, <<"n">>, <<"7">>}
\* the slots the user clicks in play mode, and an index that is no slot
ClickedSlots == {0, 3, 12}

\* newFields[index] = letter on a copy of fields; assigning beyond the end
\* of an array leaves holes
WithSlot(fields, index, letter) ==
  [k \in 1..(IF index + 1 > Len(fields) THEN index + 1 ELSE Len(fields)) |->
     IF k = index + 1 THEN letter
     ELSE IF k <= Len(fields) THEN fields[k]
     ELSE Undefined]

\* value[value.length - 1].replace(/[^A-Z]/g, '') of the upper-cased value
LastLetter(value) ==
  LET last == ToUpperCase(value[Len(value)])
  IN  IF last \in Range(UpperLetters) THEN last ELSE ""

\* LetterBox: handleInput(index, event), with the subscribers of puzzleFields
handleInput(index, value) ==
  /\ PageIdle
  /\ LET letter == IF Len(value) > 0 THEN LastLetter(value) ELSE ""
     IN  PuzzleBecomes(SetPuzzleFields(PuzzleState, autoSaveEnabled,
                                       WithSlot(puzzleFields, index, letter)))
  /\ dirty' = TRUE
  /\ UNCHANGED <<playMode, autoSaveEnabled, loading, mountPc, throttled, sessionVars>>

\* ToggleMode that also makes the auto-solve block run again
ToggleModeAndSolve ==
  /\ PageIdle
  /\ playMode' = ~playMode
  /\ dirty' = TRUE
  /\ UNCHANGED <<puzzleFields, playerSolution, autoSaveEnabled, previousFields,
                 storage, loading, mountPc, throttled, sessionVars>>

\* App: on:change of the mode checkbox, whose checked state was !$playMode
ToggleMode ==
  /\ PageIdle
  /\ LET checked == ~(~playMode) IN playMode' = ~checked
  /\ UNCHANGED <<puzzleFields, playerSolution, autoSaveEnabled, previousFields,
                 storage, appVars, sessionVars>>

\* PuzzleLoader: handlePuzzleSelection for a sample puzzle (the select is
\* disabled while today's puzzle is loading)
handlePuzzleSelection(value) ==
  /\ PageIdle
  /\ ~loading
  /\ PuzzleBecomes(SetPuzzleFields(PuzzleState, autoSaveEnabled, value))
  /\ playMode' = TRUE
  /\ dirty' = TRUE
  /\ UNCHANGED <<autoSaveEnabled, loading, mountPc, throttled, sessionVars>>

\* PuzzleLoader: handlePuzzleSelection for today's puzzle, up to the first
\* await of loadTodaysPuzzle
loadTodaysPuzzle ==
  /\ PageIdle
  /\ ~loading
  /\ loading' = TRUE
  /\ UNCHANGED <<puzzleVars, mountPc, dirty, throttled, sessionVars>>

\* what the fetch of the NYT page can deliver: no response at all, a page
\* without game data, and a page whose game data has a "sides" array
FetchFails == [kind |-> "error", sides |-> <<>>]
NoGameData == [kind |-> "nomatch", sides |-> <<>>]
GameData(sides) == [kind |-> "sides", sides |-> sides]
TodaysPages ==
  { FetchFails, NoGameData,
    GameData(<< <<"N", "U", "O">>, <<"E", "R", "T">>, <<"Y", "I", "A">>,
                <<"L", "C", "P">> >>),
    GameData(<< <<"N", "U", "O">>, <<"E", "R", "T">> >>) }

\* sidesData.flatMap(side => side.split(''))
RECURSIVE FlatMapSplit(_)
FlatMapSplit(sidesData) ==
  IF sidesData = <<>> THEN <<>>
  ELSE sidesData[1] \o FlatMapSplit(Tail(sidesData))

\* loadTodaysPuzzle that calls setPlayMode() in its finally block
loadTodaysPuzzleModeInFinally(page) ==
  /\ PageIdle
  /\ loading
  /\ loading' = FALSE
  /\ playMode' = TRUE
  /\ IF page.kind = "sides"
       THEN /\ PuzzleBecomes(SetPuzzleFields(PuzzleState, autoSaveEnabled,
                                             FlatMapSplit(page.sides)))
            /\ dirty' = TRUE
       ELSE UNCHANGED <<puzzleFields, playerSolution, previousFields, storage,
                        dirty>>
  /\ UNCHANGED <<autoSaveEnabled, mountPc, throttled, sessionVars>>

\* loadTodaysPuzzle after its awaits, for the page that was fetched
loadTodaysPuzzleSettled(page) ==
  /\ PageIdle
  /\ loading
  /\ loading' = FALSE
  /\ IF page.kind = "sides"
       THEN /\ PuzzleBecomes(SetPuzzleFields(PuzzleState, autoSaveEnabled,
                                             FlatMapSplit(page.sides)))
            /\ playMode' = TRUE
            /\ dirty' = TRUE
       ELSE UNCHANGED <<puzzleFields, playerSolution, previousFields, storage,
                        playMode, dirty>>
  /\ UNCHANGED <<autoSaveEnabled, mountPc, throttled, sessionVars>>

\* fields.slice(from, to).join('') in lower case; join writes a hole as ''
RECURSIVE JoinLowerCase(_)
JoinLowerCase(letters) ==
  IF letters = <<>> THEN ""
  ELSE (IF letters[1] = Undefined THEN "" ELSE ToLowerCase(letters[1]))
         \o JoinLowerCase(Tail(letters))
Slice(fields, from, to) ==
  SubSeq(fields, from + 1, IF to < Len(fields) THEN to ELSE Len(fields))

\* the sides App's reactive block builds: top, right, bottom, left
SidesOf(fields) ==
  << JoinLowerCase(Slice(fields, 0, 3)), JoinLowerCase(Slice(fields, 3, 6)),
     JoinLowerCase(Slice(fields, 9, 12)), JoinLowerCase(Slice(fields, 6, 9)) >>

\* throttledSolve(sides): the throttle calls workerSolvePuzzle(sides) at
\* once or holds the call back, to make it later with the latest sides
throttledSolve(sides) ==
  \/ solvePuzzle(sides, DefaultMaxSolutions) /\ UNCHANGED throttled
  \/ throttled' = Some(sides) /\ UNCHANGED sessionVars

\* the timer of the throttle makes the call it held back
ThrottleFires ==
  /\ PageIdle
  /\ throttled # Null
  /\ solvePuzzle(throttled[1], DefaultMaxSolutions)
  /\ throttled' = Null
  /\ UNCHANGED <<puzzleVars, loading, mountPc, dirty>>

\* App: the reactive auto-solve block, run when the component updates after
\* $puzzleFields or $solverReady changed
ReactiveBlock ==
  /\ dirty
  /\ dirty' = FALSE
  /\ IF IsPuzzleComplete(puzzleFields)
       THEN IF solverReady
              THEN throttledSolve(SidesOf(puzzleFields))
              ELSE UNCHANGED <<sessionVars, throttled>>
       ELSE /\ solutions' = <<>>
            /\ UNCHANGED <<worker, currentSolveId, solverReady, solving, solveStats,
                           solverError, inbox, inboxRead, outbox, outboxRead,
                           workerVars, wasmVars, throttled>>
  /\ UNCHANGED <<puzzleVars, loading, mountPc>>

\* onMount whose loadPuzzleFromStorage enables auto-save before it loads
MountLoadSavesEarly ==
  /\ mountPc = "start"
  /\ LET s == LoadedFromStorage(PuzzleState, TRUE)
     IN  /\ PuzzleBecomes(s)
         /\ dirty' = (dirty \/ s # PuzzleState)
  /\ autoSaveEnabled' = TRUE
  /\ mountPc' = "fetching"
  /\ UNCHANGED <<playMode, loading, throttled, sessionVars>>

\* App: onMount up to its first await: loadPuzzleFromStorage()
MountLoad ==
  /\ mountPc = "start"
  /\ LET s == LoadedFromStorage(PuzzleState, autoSaveEnabled)
     IN  /\ PuzzleBecomes(s)
         /\ dirty' = (dirty \/ s # PuzzleState)
  /\ autoSaveEnabled' = TRUE
  /\ mountPc' = "fetching"
  /\ UNCHANGED <<playMode, loading, throttled, sessionVars>>

\* App: onMount after the fetch of ./dictionary.txt delivered the text
MountFetched ==
  /\ mountPc = "fetching"
  /\ ~dirty
  /\ initializeSolverWorker
  /\ mountPc' = "done"
  /\ UNCHANGED <<puzzleVars, loading, dirty, throttled>>

\* App: onMount after the fetch of ./dictionary.txt failed: initError is set
\* and no worker is created
MountFetchFailed ==
  /\ mountPc = "fetching"
  /\ ~dirty
  /\ mountPc' = "failed"
  /\ UNCHANGED <<puzzleVars, loading, dirty, throttled, sessionVars>>

\* the store's listener takes up a message; solverReady changing makes the
\* App component update
AppStoreOnMessage ==
  /\ PageIdle
  /\ StoreOnMessage
  /\ dirty' = (solverReady' # solverReady)
  /\ UNCHANGED <<puzzleVars, loading, mountPc, throttled>>

\* a task of the worker
WorkerStep ==
  /\ \/ WorkerOnMessage
     \/ ResumeWaiting
     \/ InitLoaded
     \/ FetchSettled
     \/ TextSettled
     \/ \E i \in Ids, d \in Durations : SolveResolved(i, d)
     \/ \E i \in Ids : SolveRejected(i)
  /\ UNCHANGED <<puzzleVars, appVars>>

(* --------------- the page: PlayerSolution, SolutionsDisplay ------------ *)

\* PlayerSolution: wordToString(word); a slot the puzzle does not have, or
\* an empty one, shows as ''
RECURSIVE wordToString(_)
wordToString(word) ==
  IF word = <<>> THEN ""
  ELSE (IF word[1] + 1 \in DOMAIN puzzleFields /\ puzzleFields[word[1] + 1] # Undefined
          THEN puzzleFields[word[1] + 1]
          ELSE "")
         \o wordToString(Tail(word))

\* PlayerSolution: hasContent()
hasContent ==
  /\ Len(playerSolution) > 0
  /\ \E k \in DOMAIN playerSolution : Len(playerSolution[k]) > 0

\* PlayerSolution: {#if $playerSolution.length === 0} shows the empty message
PlaceholderShown == Len(playerSolution) = 0

\* PlayerSolution: {#if playMode && hasContent()} shows the backspace button
BackspaceShown == playMode /\ hasContent

\* PlayerSolution: the wrapper has display: none with class solve-mode
PlayerPanelDisplayed == ~(~playMode)

\* SolutionsDisplay: the container has display: none with class play-mode
SolutionsPanelDisplayed == ~playMode

(* ------------------- specifications of the application ----------------- *)

AppInit ==
  /\ SessionInit
  /\ PuzzleInit
  /\ storage \in StoredItems
  /\ chainSolver = Null
  /\ files = Null

\* the page without a solver (its dictionary is not fetched): the puzzle,
\* the modes and the player's solution
PuzzleNext ==
  \/ MountLoad /\ UNCHANGED solverVars
  \/ MountFetchFailed /\ UNCHANGED solverVars
  \/ \E index \in PuzzleTypedSlots, value \in TypedValues : handleInput(index, value) /\ UNCHANGED solverVars
  \/ ToggleMode /\ UNCHANGED solverVars
  \/ \E value \in ExamplePuzzles : handlePuzzleSelection(value) /\ UNCHANGED solverVars
  \/ loadTodaysPuzzle /\ UNCHANGED solverVars
  \/ \E page \in TodaysPages : loadTodaysPuzzleSettled(page) /\ UNCHANGED solverVars
  \/ \E letterIndex \in ClickedSlots : appendLetterToPlayerSolution(letterIndex) /\ UNCHANGED solverVars
  \/ backspacePlayerSolution /\ UNCHANGED solverVars
  \/ ReactiveBlock /\ UNCHANGED solverVars

PuzzleSpec == AppInit /\ [][PuzzleNext]_vars

\* the page with its solver: the puzzle (saved, typed or today's), the modes
\* and the solve session the auto-solve drives
AppNext ==
  \/ MountLoad /\ UNCHANGED solverVars
  \/ MountFetched /\ UNCHANGED solverVars
  \/ MountFetchFailed /\ UNCHANGED solverVars
  \/ \E index \in TypedSlots, value \in TypedValues : handleInput(index, value) /\ UNCHANGED solverVars
  \/ ToggleMode /\ UNCHANGED solverVars
  \/ loadTodaysPuzzle /\ UNCHANGED solverVars
  \/ \E page \in TodaysPages : loadTodaysPuzzleSettled(page) /\ UNCHANGED solverVars
  \/ ReactiveBlock /\ UNCHANGED solverVars
  \/ ThrottleFires /\ UNCHANGED solverVars
  \/ AppStoreOnMessage /\ UNCHANGED solverVars
  \/ WorkerStep /\ UNCHANGED solverVars

AppSpec == AppInit /\ [][AppNext]_vars

(* ---------------------- specification of the solver -------------------- *)
(* The solver on its own: a dictionary is loaded once, then puzzles are    *)
(* solved, one call after another.                                         *)

\* the dictionaries: the words of WordPool that a set of positions selects,
\* in the order of the pool
WordPool == <<WordNeurotypical, WordLit, WordPin, WordLet, WordHat>>
RECURSIVE Selected(_, _, _)
Selected(pool, positions, k) ==
  IF k > Len(pool) THEN <<>>
  ELSE (IF k \in positions THEN <<pool[k]>> ELSE <<>>)
         \o Selected(pool, positions, k + 1)
Dictionaries == {Selected(WordPool, positions, 1) : positions \in SUBSET DOMAIN WordPool}

SolverPuzzles == {NeurotypicalSides, ExchangedSides, NoVowelsSides}
MaxSolutionsValues == {1, 2, DefaultMaxSolutions}

SolverInit ==
  /\ SessionInit
  /\ PuzzleInit
  /\ storage = Null
  /\ chainSolver = [words |-> Null, latest |-> Null]
  /\ files = Null

\* initialize_dictionary(text)
InitializeDictionary(words) ==
  /\ chainSolver.words = Null
  /\ chainSolver' = [chainSolver EXCEPT !.words = Some(words)]
  /\ UNCHANGED <<sessionVars, puzzleVars, appVars, files>>

\* solve(sides, max_solutions)
Solve(sides, maxSolutions) ==
  /\ chainSolver.words # Null
  /\ chainSolver' =
       [chainSolver EXCEPT !.latest =
          Some([sides |-> sides, maxSolutions |-> maxSolutions,
                solutions |-> SolveChains(chainSolver.words[1], sides,
                                          maxSolutions)])]
  /\ UNCHANGED <<sessionVars, puzzleVars, appVars, files>>

SolverNext ==
  \/ \E words \in Dictionaries : InitializeDictionary(words)
  \/ \E sides \in SolverPuzzles, maxSolutions \in MaxSolutionsValues :
       Solve(sides, maxSolutions)

SolverSpec == SolverInit /\ [][SolverNext]_vars

(* -------------------- the dictionary build script ---------------------- *)
(* The builder writes one record per word, '<word> <frequency>', to        *)
(* /tmp/dictionary.txt; 'sort -k 2,2rn -k 1' writes data/dictionary.txt.   *)

\* the most records and the highest frequency of a builder output
MaxRecords == 3
MaxFrequency == 2

WordPine == <<"p", "i", "n", "e">>
BuildWords == {WordLit, WordLet, WordPin, WordPine}
Records == [word : BuildWords, frequency : 1..MaxFrequency]

\* the outputs of the builder: one record per word, in any order
BuilderOutputs ==
  {out \in UNION {[1..n -> Records] : n \in 1..MaxRecords} :
     \A a, b \in DOMAIN out : a # b => out[a].word # out[b].word}

\* the text of a record
DigitChars == <<"0", "1", "2", "3", "4", "5", "6", "7", "8", "9">>
RECURSIVE Decimal(_)
Decimal(n) ==
  IF n < 10 THEN <<DigitChars[n + 1]>>
  ELSE Decimal(n \div 10) \o <<DigitChars[(n % 10) + 1]>>
LineText(record) == record.word \o <<" ">> \o Decimal(record.frequency)

\* the order of the characters of a line: blank, digits, letters
CollatingSequence == <<" ">> \o DigitChars \o LowerLetters
CharIndex(c) == CHOOSE k \in DOMAIN CollatingSequence : CollatingSequence[k] = c

\* comparison of two key texts, character by character; a text that ends
\* first comes first
TextBefore(x, y) ==
  \E k \in 1..(Len(x) + 1) :
    /\ \A j \in 1..(k - 1) : j <= Len(y) /\ x[j] = y[j]
    /\ k <= Len(y)
    /\ k > Len(x) \/ CharIndex(x[k]) < CharIndex(y[k])

\* a sort that leaves out the 'r' of the first key
RecordBeforeAscending(x, y) ==
  \/ x.frequency < y.frequency
  \/ x.frequency = y.frequency /\ TextBefore(LineText(x), LineText(y))

\* the keys of 'sort -k 2,2rn -k 1': field 2 as a number, greater first;
\* then the line from field 1 on
RecordBefore(x, y) ==
  \/ x.frequency > y.frequency
  \/ x.frequency = y.frequency /\ TextBefore(LineText(x), LineText(y))

RECURSIVE SortedRecords(_)
SortedRecords(records) ==
  IF records = {} THEN <<>>
  ELSE LET first == CHOOSE x \in records : \A y \in records \ {x} : RecordBefore(x, y)
       IN  <<first>> \o SortedRecords(records \ {first})

\* sort: the lines of the input, in the order of the keys
SortCommand(lines) == SortedRecords(Range(lines))

BuildInit ==
  /\ SessionInit
  /\ PuzzleInit
  /\ storage = Null
  /\ chainSolver = [words |-> Null, latest |-> Null]
  /\ files = [tmp |-> Null, data |-> Null]

\* cargo run --bin dictionary-builder ... > /tmp/dictionary.txt
RunDictionaryBuilder(out) ==
  /\ files.tmp = Null
  /\ files' = [files EXCEPT !.tmp = Some(out)]
  /\ UNCHANGED <<sessionVars, puzzleVars, appVars, chainSolver>>

\* sort -k 2,2rn -k 1 /tmp/dictionary.txt > data/dictionary.txt
RunSort ==
  /\ files.tmp # Null
  /\ files.data = Null
  /\ files' = [files EXCEPT !.data = Some(SortCommand(files.tmp[1]))]
  /\ UNCHANGED <<sessionVars, puzzleVars, appVars, chainSolver>>

\* the loader reads data/dictionary.txt: the words in file order
WordsOfArtifact(lines) == [k \in DOMAIN lines |-> lines[k].word]
LoadArtifact ==
  /\ files.data # Null
  /\ chainSolver.words = Null
  /\ chainSolver' = [chainSolver EXCEPT
                       !.words = Some(WordsOfArtifact(files.data[1]))]
  /\ UNCHANGED <<sessionVars, puzzleVars, appVars, files>>

BuildNext ==
  \/ \E out \in BuilderOutputs : RunDictionaryBuilder(out)
  \/ RunSort
  \/ LoadArtifact

BuildSpec == BuildInit /\ [][BuildNext]_vars

(* ------------------- SolutionsDisplay: the grouped list ----------------- *)
(* The component works on the characters of the solution strings; the      *)
(* strings of the model are the concatenations of their characters.        *)

\* the characters of '<hyphen-joined lowercase words>:<score>'
RECURSIVE HyphenJoinedChars(_)
HyphenJoinedChars(chain) ==
  IF Len(chain) = 1 THEN chain[1].word
  ELSE chain[1].word \o <<"-">> \o HyphenJoinedChars(Tail(chain))
SolutionChars(chain) ==
  HyphenJoinedChars(chain) \o <<":">> \o Decimal(AggregateScore(chain))

\* the characters of each solution string of the session
SolutionTexts ==
  { SolutionChars(NeurotypicalChains[k]) : k \in DOMAIN NeurotypicalChains }
Characters ==
  [solutionStr \in { Concat(chars) : chars \in SolutionTexts } |->
     CHOOSE chars \in SolutionTexts : Concat(chars) = solutionStr]

\* str.split(separator): the pieces between the separators, '' included
RECURSIVE Split(_, _)
Split(chars, separator) ==
  IF chars = <<>> THEN << <<>> >>
  ELSE LET rest == Split(Tail(chars), separator)
       IN  IF chars[1] = separator THEN << <<>> >> \o rest
           ELSE << <<chars[1]>> \o rest[1] >> \o Tail(rest)

\* parseSolution(solutionStr)
parseSolution(solutionStr) ==
  LET parts == Split(Characters[solutionStr], ":")
      words == parts[1]
  IN  [words |-> words,
       score |-> IF Len(parts) > 1 THEN parts[2] ELSE <<>>,
       length |-> Len(SelectSeq(words, LAMBDA c : c # "-"))]

\* the forEach of solutionsByWordCount with unshift in place of push
RECURSIVE GroupedFromUnshift(_, _)
GroupedFromUnshift(grouped, list) ==
  IF list = <<>> THEN grouped
  ELSE LET wordCount == Len(Split(parseSolution(list[1]).words, "-"))
           group == IF wordCount \in DOMAIN grouped THEN grouped[wordCount] ELSE <<>>
       IN  GroupedFromUnshift([k \in DOMAIN grouped \cup {wordCount} |->
                                 IF k = wordCount THEN <<list[1]>> \o group
                                 ELSE grouped[k]],
                              Tail(list))

\* the forEach of solutionsByWordCount: grouped is a sparse array, a function
\* on the indices that were assigned
RECURSIVE GroupedFrom(_, _)
GroupedFrom(grouped, list) ==
  IF list = <<>> THEN grouped
  ELSE LET wordCount == Len(Split(parseSolution(list[1]).words, "-"))
           group == IF wordCount \in DOMAIN grouped THEN grouped[wordCount] ELSE <<>>
       IN  GroupedFrom([k \in DOMAIN grouped \cup {wordCount} |->
                          IF k = wordCount THEN Append(group, list[1])
                          ELSE grouped[k]],
                       Tail(list))

\* solutionsByWordCount, derived from $solutions
solutionsByWordCount == GroupedFrom(<<>>, solutions)

\* a.localeCompare(b) < 0: hyphen, colon, digits, letters, character by
\* character; a text that ends first comes first
localeCompare(a, b) ==
  LET order == <<"-", ":">> \o DigitChars \o LowerLetters
      index(c) == CHOOSE k \in DOMAIN order : order[k] = c
      x == Characters[a]
      y == Characters[b]
  IN  \E k \in 1..(Len(x) + 1) :
        /\ \A j \in 1..(k - 1) : j <= Len(y) /\ x[j] = y[j]
        /\ k <= Len(y)
        /\ k <= Len(x) => index(x[k]) < index(y[k])

\* the comparison of getSortedSolutions is negative for (a, b)
Precedes(sortOrder, a, b) ==
  IF sortOrder = "alphabetical" THEN localeCompare(a, b)
  ELSE parseSolution(a).length < parseSolution(b).length

\* Array.prototype.sort, which is stable: the elements of list put one by
\* one into sorted, each before the first element it precedes
RECURSIVE SortedFrom(_, _, _)
SortedFrom(sorted, list, sortOrder) ==
  IF list = <<>> THEN sorted
  ELSE LET later == {k \in DOMAIN sorted : Precedes(sortOrder, list[1], sorted[k])}
           p == IF later = {} THEN Len(sorted) + 1
                ELSE CHOOSE k \in later : \A j \in later : k <= j
       IN  SortedFrom(SubSeq(sorted, 1, p - 1) \o <<list[1]>>
                        \o SubSeq(sorted, p, Len(sorted)),
                      Tail(list), sortOrder)

\* getSortedSolutions(solutionsArray, sortOrder)
getSortedSolutions(solutionsArray, sortOrder) ==
  IF sortOrder \in {"alphabetical", "length"}
    THEN SortedFrom(<<>>, solutionsArray, sortOrder)
    ELSE solutionsArray

(* ------------------------- notions of the claims ----------------------- *)

\* the worker has posted a message of this type for this request id
HasPosted(type, id) ==
  \E k \in 1..Len(outbox) :
    outbox[k].type = type /\ "solveId" \in DOMAIN outbox[k] /\ outbox[k].solveId = id

\* the terminal messages posted for a request id, as positions of outbox
TerminalPosts(id) ==
  {k \in 1..Len(outbox) :
     /\ outbox[k].type \in {"COMPLETE", "CANCELLED", "ERROR"}
     /\ "solveId" \in DOMAIN outbox[k]
     /\ outbox[k].solveId = id}

\* solve_game was called for request id and its promise had not settled
\* when the event at position b of wasmTrace happened
InFlightAt(id, b) ==
  /\ \E a \in 1..(b - 1) : wasmTrace[a] = Called(id)
  /\ \A c \in 1..b : ~(wasmTrace[c].ev \in {"fulfilled", "rejected"}
                       /\ wasmTrace[c].solveId = id)

\* the worker took up a later SOLVE while the search of request id was in flight
Superseded(id) ==
  \E b \in 1..Len(wasmTrace) :
    /\ wasmTrace[b].ev = "solve_game"
    /\ wasmTrace[b].solveId # id
    /\ InFlightAt(id, b)

\* the worker took up a CANCEL while the search of request id was in flight
CancelledInFlight(id) ==
  \E b \in 1..Len(wasmTrace) :
    /\ wasmTrace[b].ev = "cancel_current_solve"
    /\ InFlightAt(id, b)

\* the SOLVE message the store sent with this id
RequestOf(id) == CHOOSE m \in {inbox[k] : k \in 1..Len(inbox)} :
                   m.type = "SOLVE" /\ m.solveId = id

(* -------------------------------- C1 ----------------------------------- *)

\* C1: once the worker has taken up SOLVE(P2) while the search of P1 was in
\* flight, no COMPLETE is ever posted for P1's id: every message posted for
\* P1 is a CANCELLED, and there is at most one.
C1_NoCompleteForSuperseded ==
  \A i \in Ids :
    Superseded(i) =>
      /\ ~HasPosted("COMPLETE", i)
      /\ \A k \in TerminalPosts(i) : outbox[k].type = "CANCELLED"
      /\ Cardinality(TerminalPosts(i)) <= 1

\* a superseded search noticed the stop signal and was answered CANCELLED,
\* after the request that superseded it was answered COMPLETE
C1_Witness ==
  \E i, j \in Ids :
    /\ Superseded(i) /\ HasPosted("CANCELLED", i)
    /\ j # i /\ HasPosted("COMPLETE", j)

(* -------------------------------- C2 ----------------------------------- *)

\* the message the store's listener handles next
NextDelivery == outbox[outboxRead + 1]

StaleCompleteNext ==
  /\ outboxRead < Len(outbox)
  /\ NextDelivery.type = "COMPLETE"
  /\ NextDelivery.solveId # currentSolveId

\* C2: the store applies a COMPLETE only when its solveId is the store's
\* current solve id: delivering a COMPLETE with another id leaves solutions,
\* solving and solveStats unchanged, and the solutions the store holds are
\* always those of the most recently submitted request (or none).
C2_OnlyCurrentCompleteApplied ==
  /\ [][(StaleCompleteNext /\ outboxRead' = outboxRead + 1)
          => UNCHANGED <<solutions, solving, solveStats>>]_vars
  /\ [](solutions # <<>> =>
          /\ currentSolveId \in Ids
          /\ solutions = SolveGameResult(RequestOf(currentSolveId).sides,
                                         RequestOf(currentSolveId).maxSolutions))

\* a COMPLETE of an older request, with solutions other than those of the
\* current request, is the next message the store handles
C2_Witness ==
  /\ StaleCompleteNext
  /\ NextDelivery.solutions # <<>>
  /\ NextDelivery.solutions #
       SolveGameResult(RequestOf(currentSolveId).sides,
                       RequestOf(currentSolveId).maxSolutions)

(* -------------------------------- C6 ----------------------------------- *)

\* the ids of the SOLVE messages sent, in the order they were sent
SentIds == [k \in {n \in 1..Len(inbox) : inbox[n].type = "SOLVE"} |-> inbox[k].solveId]

\* C6: request ids are strictly increasing: of two SOLVE messages, the one
\* sent later carries the greater id (so no two carry the same id), and the
\* store's counter is the id of the last one sent.
C6_IdsStrictlyIncreasing ==
  /\ \A a, b \in DOMAIN SentIds : a < b => SentIds[a] < SentIds[b]
  /\ \A a \in DOMAIN SentIds : SentIds[a] <= currentSolveId

\* two SOLVE messages have been sent, the second after a CANCEL
C6_Witness ==
  \E a, b, c \in 1..Len(inbox) :
    /\ a < b /\ b < c
    /\ inbox[a].type = "SOLVE" /\ inbox[b].type = "CANCEL" /\ inbox[c].type = "SOLVE"

(* -------------------------------- C3 ----------------------------------- *)

\* nothing is left to do on either side: every message is handled, no
\* handler is suspended and no search is running
Quiescent ==
  /\ inboxRead = Len(inbox)
  /\ outboxRead = Len(outbox)
  /\ waiting = <<>>
  /\ initPc \in {"done", "failed"}
  /\ \A i \in Ids : search[i].status # "pending"

\* no CANCEL was sent after the SOLVE of the store's current request
NoCancelSinceLastSolve ==
  \A a, b \in 1..Len(inbox) :
    (inbox[a].type = "SOLVE" /\ inbox[a].solveId = currentSolveId /\ a < b)
      => inbox[b].type # "CANCEL"

\* C3: when everything has settled after the last solvePuzzle call (no
\* cancelSolve after it), the solver is ready and the search of that request
\* finished successfully, the worker has posted COMPLETE for it and the
\* store has solving = false and that request's solutions.
C3_LastRequestCompletes ==
  (/\ Quiescent
   /\ currentSolveId \in Ids
   /\ NoCancelSinceLastSolve
   /\ solverReady
   /\ search[currentSolveId].status = "fulfilled")
  => /\ HasPosted("COMPLETE", currentSolveId)
     /\ ~solving
     /\ solutions = SolveGameResult(RequestOf(currentSolveId).sides,
                                    RequestOf(currentSolveId).maxSolutions)

(* -------------------------------- C4 ----------------------------------- *)

Settled_(id) == search[id].status \in {"fulfilled", "rejected"}

\* C4 (as claimed): a search that was in flight when the worker took up a
\* CANCEL is answered CANCELLED once it has ended, and never COMPLETE.
C4_CancelYieldsCancelled ==
  \A i \in Ids :
    CancelledInFlight(i) =>
      /\ ~HasPosted("COMPLETE", i)
      /\ Settled_(i) => HasPosted("CANCELLED", i)

(* -------------------------------- C5 ----------------------------------- *)

\* C5 (as claimed): every SOLVE request whose handler has run to its end
\* has been answered by exactly one terminal message carrying its id.
C5_ExactlyOneTerminalMessage ==
  \A i \in Ids : Settled_(i) => Cardinality(TerminalPosts(i)) = 1

(* -------------------------------- C7 ----------------------------------- *)

Pending == {i \in Ids : search[i].status = "pending"}

ReadyPosts == {k \in 1..Len(outbox) : outbox[k].type = "READY"}

\* C8: READY is posted only once the dictionary has been fetched and
\* initialize_dictionary has returned without error, it is never posted by
\* an INIT that failed, and the store's solverReady is true only when a
\* READY has been delivered to it.
C8_ReadyOnlyAfterInit ==
  /\ ReadyPosts # {} =>
       /\ dictionaryText # Null
       /\ DictionaryLoads(dictionaryText[1])
       /\ dictionaryInitialized
       /\ initPc = "done"
       /\ wasmTrace # <<>> /\ wasmTrace[1].ev = "initialize_dictionary"
  /\ initPc = "failed" => ReadyPosts = {}
  /\ solverReady => \E k \in ReadyPosts : k <= outboxRead

\* the worker got through INIT and the store has taken up its READY
C8_Witness == solverReady /\ initPc = "done"

(* -------------------------------- C9 ----------------------------------- *)

IsRequest(m) == m.type \in {"SOLVE", "CANCEL"}
IsRequestCall(e) == e.ev \in {"solve_game", "cancel_current_solve"}

\* the SOLVE and CANCEL messages the worker has received, in arrival order
Received == SelectSeq(SubSeq(inbox, 1, inboxRead), IsRequest)

\* the calls of solve_game and cancel_current_solve made so far, in order
RequestCalls == SelectSeq(wasmTrace, IsRequestCall)

\* the call a received message leads to
CallOf(m) == IF m.type = "CANCEL" THEN [ev |-> "cancel_current_solve"]
             ELSE Called(m.solveId)

\* C9: solve_game and cancel_current_solve are not called before
\* initialize_dictionary has succeeded; the SOLVE and CANCEL messages
\* received before that are held back, and the calls made are those of the
\* messages received, in their arrival order, the held-back messages being
\* the ones received last.
C9_NoSearchBeforeInit ==
  /\ RequestCalls # <<>> =>
       /\ dictionaryInitialized
       /\ wasmTrace[1].ev = "initialize_dictionary"
  /\ ~wasmReady => waiting = Received
  /\ Len(RequestCalls) + Len(waiting) = Len(Received)
  /\ \A k \in 1..Len(RequestCalls) : RequestCalls[k] = CallOf(Received[k])
  /\ \A k \in 1..Len(waiting) : waiting[k] = Received[Len(RequestCalls) + k]

\* of three messages received before the solver was ready, the first has
\* been taken up after READY and the other two are still held back
C9_Witness ==
  /\ wasmReady
  /\ Len(waiting) = 2
  /\ Len(RequestCalls) = 1
  /\ waiting[1].type # waiting[2].type

(* -------------------------------- C10 ---------------------------------- *)

\* the message the store's listener handled last
LastDelivery == outbox[outboxRead]

\* C10 (as claimed): a search of the store's current request that finishes
\* without a solution is answered by a COMPLETE with an empty list and not
\* by an ERROR; when the store has just taken up that COMPLETE it has
\* solving = false, no solutions and solverError = null; and solverError is
\* set by no message but an ERROR.
C10_EmptyCompleteIsNoError ==
  /\ []((/\ Quiescent
         /\ currentSolveId \in Ids
         /\ NoCancelSinceLastSolve
         /\ search[currentSolveId].status = "fulfilled"
         /\ SolveGameResult(search[currentSolveId].sides,
                            search[currentSolveId].maxSolutions) = <<>>)
        => (/\ \E k \in TerminalPosts(currentSolveId) :
                 outbox[k].type = "COMPLETE" /\ outbox[k].solutions = <<>>
            /\ ~HasPosted("ERROR", currentSolveId)))
  /\ []((/\ outboxRead > 0
         /\ LastDelivery.type = "COMPLETE"
         /\ LastDelivery.solveId = currentSolveId
         /\ LastDelivery.solutions = <<>>)
        => (~solving /\ solutions = <<>> /\ solverError = Null))
  /\ [][(solverError' # solverError /\ solverError' # Null)
          => (outboxRead' = outboxRead + 1 /\ NextDelivery.type = "ERROR")]_vars

(* -------------------------------- C11 ---------------------------------- *)

\* the promise of solve_game for request id was rejected
Failed(id) == search[id].status = "rejected"

\* the rejection was a cancellation: the search had valid sides and was
\* signalled to stop (by a CANCEL or by a later SOLVE) before it rejected
FailedByCancellation(id) == Failed(id) /\ ValidSides(search[id].sides)

CancelSent ==
  /\ Len(inbox') > Len(inbox)
  /\ inbox'[Len(inbox')].type = "CANCEL"

\* C12: a call of cancelSolve sends exactly one CANCEL and no SOLVE, sets
\* solving to false and leaves the current solve id, solutions, solveStats
\* and solverError as they were; before the worker exists there is no current
\* request (the id is 0 and solving is false).
C12_CancelSolveFrame ==
  /\ [][CancelSent =>
          /\ inbox' = Append(inbox, [type |-> "CANCEL"])
          /\ solving' = FALSE
          /\ UNCHANGED <<currentSolveId, solutions, solveStats, solverError,
                         solverReady, worker>>]_vars
  /\ [](~worker => (currentSolveId = 0 /\ ~solving /\ inbox = <<>>))

\* cancelSolve was called while the store held solutions of its current
\* request: the CANCEL is the last message sent and the solutions are kept
C12_Witness ==
  /\ inbox # <<>>
  /\ inbox[Len(inbox)].type = "CANCEL"
  /\ currentSolveId \in Ids
  /\ solutions # <<>>
  /\ solveStats.totalCount = Len(solutions)
  /\ ~solving

(* -------------------------------- C13 ---------------------------------- *)

\* C13: the puzzle always has exactly 12 letter slots: after any sequence of
\* typing, loading from storage, choosing a sample puzzle and loading
\* today's puzzle, puzzleFields has length 12.
C13_TwelveSlots == Len(puzzleFields) = NumSlots

(* -------------------------------- C15 ---------------------------------- *)

\* C15: in play mode the puzzle letters cannot be edited: an input event on
\* a letter field changes puzzleFields only in solve mode, and switching
\* between the modes never changes puzzleFields.
C15_NoEditInPlayMode ==
  /\ [][(playMode /\ \E index \in TypedSlots, value \in TypedValues :
                       handleInput(index, value))
          => puzzleFields' = puzzleFields]_vars
  /\ [][ToggleMode => puzzleFields' = puzzleFields]_vars

(* -------------------------------- C14 ---------------------------------- *)

\* the page sends a SOLVE in this step
SolveSent ==
  /\ Len(inbox') > Len(inbox)
  /\ inbox'[Len(inbox')].type = "SOLVE"

\* the puzzle has 12 slots and each holds one letter A-Z
WellFormedPuzzle(fields) ==
  /\ Len(fields) = NumSlots
  /\ \A k \in 1..NumSlots : fields[k] \in Range(UpperLetters)

\* C14: every SOLVE the application sends carries exactly 4 sides of exactly
\* 3 lower-case letters each, which are the slots 0-2, 3-5, 9-11 and 6-8 of
\* the puzzle, and it is sent only while the puzzle is complete and after
\* the solver has become ready.
C14_SolveOnlyWellFormed ==
  [][SolveSent =>
       LET sides == inbox'[Len(inbox')].sides IN
         /\ Len(sides) = 4
         /\ \A k \in 1..4 : sides[k] \in ThreeLetterStrings
         /\ solverReady
         /\ WellFormedPuzzle(puzzleFields)
         /\ sides = << ToLowerCase(puzzleFields[1]) \o ToLowerCase(puzzleFields[2])
                         \o ToLowerCase(puzzleFields[3]),
                       ToLowerCase(puzzleFields[4]) \o ToLowerCase(puzzleFields[5])
                         \o ToLowerCase(puzzleFields[6]),
                       ToLowerCase(puzzleFields[10]) \o ToLowerCase(puzzleFields[11])
                         \o ToLowerCase(puzzleFields[12]),
                       ToLowerCase(puzzleFields[7]) \o ToLowerCase(puzzleFields[8])
                         \o ToLowerCase(puzzleFields[9]) >>]_vars

(* -------------------------------- C16 ---------------------------------- *)

\* a letter is added to the player's solution by a click (not by onMount
\* loading a saved solution)
LetterAppended ==
  /\ mountPc' = mountPc
  /\ NumLetters(playerSolution') > NumLetters(playerSolution)

\* the last word of a player solution, the empty word if it has none
LastWord(solution) ==
  IF solution = <<>> THEN <<>> ELSE solution[Len(solution)]

\* C16: in play mode appending builds the player's word in click order: each
\* append happens in play mode, adds exactly one index 0..11 at the end of
\* the last word (the first word, if there was none) and changes nothing
\* before it, so that appends from the empty solution give a single word of
\* the indices in click order, and the word displayed grows by the letter of
\* the clicked slot at its end.
C16_AppendInClickOrder ==
  /\ [][LetterAppended =>
          /\ playMode
          /\ \E i \in 0..11 :
               /\ LastWord(playerSolution') = Append(LastWord(playerSolution), i)
               /\ wordToString(LastWord(playerSolution'))
                    = wordToString(LastWord(playerSolution)) \o puzzleFields[i + 1]
          /\ Len(playerSolution') = (IF playerSolution = <<>> THEN 1
                                     ELSE Len(playerSolution))
          /\ \A k \in 1..(Len(playerSolution') - 1) :
               playerSolution'[k] = playerSolution[k]]_vars
  /\ [](Len(playerSolution) <= 1)

\* slot 3 and then slot 0 of the test's puzzle were clicked: the word is
\* [3, 0] and reads EN
C16_Witness ==
  /\ playMode
  /\ puzzleFields = NeurotypicalFields
  /\ playerSolution = << <<3, 0>> >>
  /\ wordToString(playerSolution[1]) = "EN"

(* -------------------------------- C17 ---------------------------------- *)

\* the sequences of at most MaxLetters slot indices
ClickSequences ==
  UNION {[1..n -> {0, 3, 11}] : n \in 0..MaxLetters}

RECURSIVE AppendedAll(_, _)
AppendedAll(solution, clicks) ==
  IF clicks = <<>> THEN solution
  ELSE AppendedAll(Appended(solution, clicks[1]), Tail(clicks))

RECURSIVE BackspacedTimes(_, _)
BackspacedTimes(solution, n) ==
  IF n = 0 THEN solution ELSE BackspacedTimes(Backspaced(solution), n - 1)

\* C17: backspace undoes the most recent append: in play mode, for the
\* player solution s held and every slot index i in 0..11, appending i and
\* then backspacing gives back s; and n backspaces after n appends from the
\* empty solution give the empty solution.
C17_BackspaceUndoesAppend ==
  /\ playMode =>
       \A i \in 0..11 : Backspaced(Appended(playerSolution, i)) = playerSolution
  /\ \A clicks \in ClickSequences :
       BackspacedTimes(AppendedAll(<<>>, clicks), Len(clicks)) = <<>>

(* -------------------------------- C18 ---------------------------------- *)

\* some word of the player solution has a letter
HasLetter == \E k \in DOMAIN playerSolution : Len(playerSolution[k]) > 0

\* C18: the placeholder is shown exactly when the player solution contains
\* no letter, and the backspace button exactly when it contains at least
\* one letter in play mode: playerSolution.length = 0 if and only if no word
\* of it has a letter.
C18_PlaceholderIffNoLetter ==
  /\ PlaceholderShown <=> ~HasLetter
  /\ BackspaceShown <=> (playMode /\ HasLetter)
  /\ Len(playerSolution) = 0 <=> ~HasLetter

(* -------------------------------- C19 ---------------------------------- *)

\* the mode is switched by the mode checkbox (not by loading a puzzle)
ModeSwitched == playMode' # playMode /\ loading' = loading

\* C19: the solutions panel is displayed in solve mode and hidden in play
\* mode, the player-solution panel the other way round, so exactly one of
\* the two is displayed in every state; and switching the mode changes
\* neither the solutions the store holds nor anything else of the solve
\* session, and triggers no new solve.
C19_OnePanelDisplayed ==
  /\ [](/\ SolutionsPanelDisplayed <=> ~playMode
        /\ PlayerPanelDisplayed <=> playMode
        /\ SolutionsPanelDisplayed # PlayerPanelDisplayed)
  /\ [][ModeSwitched =>
          UNCHANGED <<solutions, solveStats, solving, solverError, currentSolveId,
                      inbox, dirty, throttled>>]_vars

\* the store holds the solutions of the test's puzzle and the page is in
\* solve mode, after the mode checkbox was used
C19_Witness ==
  /\ ~playMode
  /\ SolutionsPanelDisplayed
  /\ solutions = AllSolutions(Neurotypical)
  /\ ~solving


\* the latest solve of the solver: its puzzle and the solutions it returned
Solved == chainSolver.latest # Null
LatestSides == chainSolver.latest[1].sides
LatestSolutions == chainSolver.latest[1].solutions
OnSameSide(sides, a, b) ==
  \E s \in DOMAIN sides : a \in Range(sides[s]) /\ b \in Range(sides[s])

\* C20: for every puzzle P and every solution S returned for P, every word
\* of S uses only letters of P, no two consecutive letters of a word lie on
\* the same side, the last letter of each word is the first letter of the
\* next word, and the letters of S together are exactly the distinct
\* letters of P.
C20_SolutionsAreValid ==
  Solved =>
    \A n \in DOMAIN LatestSolutions :
      LET S == LatestSolutions[n]
          P == LatestSides
          lettersOfP == UNION {Range(P[s]) : s \in DOMAIN P}
      IN  /\ \A w \in DOMAIN S :
               /\ \A k \in DOMAIN S[w].word : S[w].word[k] \in lettersOfP
               /\ \A k \in 1..(Len(S[w].word) - 1) :
                    ~OnSameSide(P, S[w].word[k], S[w].word[k + 1])
          /\ \A w \in 1..(Len(S) - 1) :
               S[w].word[Len(S[w].word)] = S[w + 1].word[1]
          /\ UNION {Range(S[w].word) : w \in DOMAIN S} = lettersOfP

\* a solve returned several solutions, one of more than one word, from a
\* dictionary with a word of a foreign letter and a word with two
\* consecutive letters on one side
C20_Witness ==
  /\ Solved
  /\ Len(LatestSolutions) >= 2
  /\ \E n \in DOMAIN LatestSolutions : Len(LatestSolutions[n]) >= 2
  /\ chainSolver.words = Some(WordPool)
  /\ ~IsPlayable(WordLet, LatestSides)
  /\ ~IsPlayable(WordHat, LatestSides)


(* -------------------------------- C21 ---------------------------------- *)

\* ascending word count, then ascending aggregate score within a word count
InOrder(chains) ==
  \A a, b \in DOMAIN chains :
    a < b =>
      \/ Len(chains[a]) < Len(chains[b])
      \/ /\ Len(chains[a]) = Len(chains[b])
         /\ AggregateScore(chains[a]) <= AggregateScore(chains[b])

\* the chains the solver returns for the request with this id
ChainsOf(id) ==
  LET all == AllChains(RequestOf(id).sides)
      maxSolutions == RequestOf(id).maxSolutions
  IN  IF Len(all) <= maxSolutions THEN all ELSE SubSeq(all, 1, maxSolutions)

CompletePosts == {k \in 1..Len(outbox) : outbox[k].type = "COMPLETE"}

\* C21: the solutions of a request are ordered by ascending word count, then
\* ascending aggregate score within a word count, and every COMPLETE the
\* worker posts and every list the store holds has them in that order,
\* solution by solution.
C21_DeliveredInSolverOrder ==
  /\ \A k \in CompletePosts :
       /\ InOrder(ChainsOf(outbox[k].solveId))
       /\ outbox[k].solutions = SolutionStrings(ChainsOf(outbox[k].solveId))
  /\ solutions # <<>> =>
       \E k \in CompletePosts :
         /\ outbox[k].solveId = currentSolveId
         /\ solutions = outbox[k].solutions
         /\ solutions = SolutionStrings(ChainsOf(currentSolveId))

\* the store holds a list with a solution of one word and two solutions of
\* two words with different scores
C21_Witness ==
  /\ Len(solutions) >= 3
  /\ \E a, b \in DOMAIN ChainsOf(currentSolveId) :
       /\ a < b
       /\ Len(ChainsOf(currentSolveId)[a]) = Len(ChainsOf(currentSolveId)[b])
       /\ AggregateScore(ChainsOf(currentSolveId)[a])
            < AggregateScore(ChainsOf(currentSolveId)[b])
  /\ Len(ChainsOf(currentSolveId)[1]) < Len(ChainsOf(currentSolveId)[2])


(* -------------------------------- C22 ---------------------------------- *)

LatestMaxSolutions == chainSolver.latest[1].maxSolutions

\* the valid chains of the latest solve's puzzle: every chain of playable
\* words, of a word count the search tries, that covers the puzzle's letters
ValidChains ==
  LET playable == PlayableWords(chainSolver.words[1], LatestSides)
  IN  UNION {{chain \in ChainsOfLength(playable, k) :
                Coverage(chain) = LetterSet(LatestSides)} : k \in 1..MaxChainLength}

\* the result of the same solve without a bound that matters
UnboundedResult ==
  SolveChains(chainSolver.words[1], LatestSides, Cardinality(ValidChains))

CoveringWords ==
  {e \in Range(DictionaryEntries(chainSolver.words[1])) :
     /\ IsPlayable(e.word, LatestSides)
     /\ Range(e.word) = LetterSet(LatestSides)}

SameRequest(i, j) ==
  /\ RequestOf(i).sides = RequestOf(j).sides
  /\ RequestOf(i).maxSolutions = RequestOf(j).maxSolutions

LetterIndex(c) == CHOOSE k \in DOMAIN LowerLetters : LowerLetters[k] = c

\* v is before w in the alphabetical order of words
AlphabeticallyBefore(v, w) ==
  \/ /\ Len(v) < Len(w)
     /\ \A j \in 1..Len(v) : v[j] = w[j]
  \/ \E k \in 1..Len(v) :
       /\ k <= Len(w)
       /\ \A j \in 1..(k - 1) : v[j] = w[j]
       /\ LetterIndex(v[k]) < LetterIndex(w[k])

Artifact == files.data[1]
LoadedEntries == DictionaryEntries(chainSolver.words[1])

\* C25: the dictionary artifact has the records of the builder ordered by
\* descending frequency, records of equal frequency by ascending
\* alphabetical order of the words, and the rank of a word is its position
\* in that order, from 0.
C25_ArtifactInRankOrder ==
  /\ files # Null /\ files.data # Null =>
       /\ Range(Artifact) = Range(files.tmp[1])
       /\ Len(Artifact) = Len(files.tmp[1])
       /\ \A a, b \in DOMAIN Artifact :
            a < b =>
              \/ Artifact[a].frequency > Artifact[b].frequency
              \/ /\ Artifact[a].frequency = Artifact[b].frequency
                 /\ AlphabeticallyBefore(Artifact[a].word, Artifact[b].word)
  /\ files # Null /\ chainSolver.words # Null =>
       /\ Len(LoadedEntries) = Len(Artifact)
       /\ \A k \in DOMAIN Artifact :
            /\ LoadedEntries[k].word = Artifact[k].word
            /\ LoadedEntries[k].rank = k - 1

\* an artifact is loaded whose builder output had the less frequent word
\* first and, of two words of equal frequency, one the beginning of the
\* other, the longer one first
C25_Witness ==
  /\ files # Null /\ files.data # Null /\ chainSolver.words # Null
  /\ Len(Artifact) = 3
  /\ \E a, b \in DOMAIN files.tmp[1] :
       a < b /\ files.tmp[1][a].frequency < files.tmp[1][b].frequency
  /\ \E a, b \in DOMAIN files.tmp[1] :
       /\ a < b
       /\ files.tmp[1][a].word = WordPine /\ files.tmp[1][b].word = WordPin
       /\ files.tmp[1][a].frequency = files.tmp[1][b].frequency


(* -------------------------------- C26 ---------------------------------- *)

\* the calls and settlements of solve_game and the calls of
\* cancel_current_solve that the step adds
AddedEvents == SubSeq(wasmTrace', Len(wasmTrace) + 1, Len(wasmTrace'))

\* the step clears the marker while it identifies request id
MarkerCleared(id) == w_currentSolveId = Some(id) /\ w_currentSolveId' = Null

\* the step handles a CANCEL, or settles the request the marker identifies:
\* request id, or a request whose SOLVE the step itself takes up
ClearedByOwnSettlementOrCancel(id) ==
  \E n \in DOMAIN AddedEvents :
    \/ AddedEvents[n].ev = "cancel_current_solve"
    \/ /\ AddedEvents[n].ev \in {"fulfilled", "rejected"}
       /\ \/ AddedEvents[n].solveId = id
          \/ \E c \in 1..(n - 1) : AddedEvents[c] = Called(AddedEvents[n].solveId)

\* C26: when an older request's search ends as cancelled or failed after the
\* worker has accepted a newer SOLVE, the marker still identifies the newer
\* request: the marker is cleared only by the settlement of the request it
\* identifies or by a CANCEL.
C26_MarkerKeepsNewerRequest ==
  [][\A id \in Ids : MarkerCleared(id) => ClearedByOwnSettlementOrCancel(id)]_vars


(* -------------------------------- C27 ---------------------------------- *)

\* the message the store's listener handles next is a CANCELLED or an ERROR
\* of a request older than the store's current one
StaleFailureNext ==
  /\ outboxRead < Len(outbox)
  /\ NextDelivery.type \in {"CANCELLED", "ERROR"}
  /\ "solveId" \in DOMAIN NextDelivery
  /\ NextDelivery.solveId < currentSolveId

\* C27: a CANCELLED or ERROR message whose solveId is older than the store's
\* current solve id does not change the store: solving, solverError,
\* solutions and solveStats stay as they are.
C27_StaleFailureIgnored ==
  [][(StaleFailureNext /\ outboxRead' = outboxRead + 1)
       => UNCHANGED <<solving, solverError, solutions, solveStats>>]_vars


(* -------------------------------- C28 ---------------------------------- *)

\* cancelSolve has been called, and solvePuzzle has not been called since
AfterCancelSolve ==
  \E k \in 1..Len(inbox) :
    /\ inbox[k].type = "CANCEL"
    /\ \A j \in (k + 1)..Len(inbox) : inbox[j].type # "SOLVE"

\* C28: after cancelSolve() the results of the cancelled request are never
\* applied: until the next solvePuzzle call solving stays false, and
\* solutions and solveStats keep the values they had when cancelSolve
\* returned, also when a COMPLETE of the cancelled request was on its way.
C28_NothingAppliedAfterCancel ==
  /\ [](AfterCancelSolve => ~solving)
  /\ [][(AfterCancelSolve /\ AfterCancelSolve')
          => UNCHANGED <<solutions, solveStats>>]_vars


(* -------------------------------- C29 ---------------------------------- *)

\* C29: the worker never posts more than one terminal message (COMPLETE,
\* CANCELLED or ERROR) with the same request id, in any interleaving of
\* SOLVE and CANCEL messages and search settlements.
C29_AtMostOneTerminalMessage ==
  \A id \in Ids : Cardinality(TerminalPosts(id)) <= 1

\* two requests were answered, one by CANCELLED and one by COMPLETE, and the
\* worker took up a CANCEL while a search was in flight
C29_Witness ==
  /\ \E i, j \in Ids :
       /\ i # j
       /\ HasPosted("CANCELLED", i)
       /\ HasPosted("COMPLETE", j)
  /\ \E id \in Ids : CancelledInFlight(id)


(* -------------------------------- C30 ---------------------------------- *)

\* C30: a call of solvePuzzle with a worker clears the previous outcome and
\* sends one request: afterwards solving = true, solutions is empty,
\* solveStats = {totalCount: 0, duration: null}, solverError = null, and one
\* SOLVE with the new id and the sides and maxSolutions of the call has been
\* sent; an id is consumed by nothing else, and without a worker nothing of
\* the store changes and no SOLVE is sent.
C30_SolvePuzzleFrame ==
  /\ [][SolveSent =>
          /\ worker
          /\ currentSolveId' = currentSolveId + 1
          /\ solving' = TRUE
          /\ solutions' = <<>>
          /\ solveStats' = [totalCount |-> 0, duration |-> Null]
          /\ solverError' = Null
          /\ \E in \in SolveInputs :
               inbox' = Append(inbox, [type |-> "SOLVE",
                                       solveId |-> currentSolveId',
                                       sides |-> in[1],
                                       maxSolutions |-> in[2]])]_vars
  /\ [][currentSolveId' # currentSolveId => SolveSent]_vars
  /\ [][~worker =>
          /\ ~SolveSent
          /\ UNCHANGED <<currentSolveId, solving, solutions, solveStats,
                         solverError>>]_vars

\* solvePuzzle was called after the first request was answered COMPLETE with
\* solutions: the second SOLVE is the last message sent, and the store
\* holds no solutions, no statistics and no error and is solving
C30_Witness ==
  /\ currentSolveId = 2
  /\ inbox[Len(inbox)].type = "SOLVE"
  /\ inbox[Len(inbox)].solveId = 2
  /\ inboxRead < Len(inbox)
  /\ \E k \in 1..outboxRead :
       /\ outbox[k].type = "COMPLETE"
       /\ outbox[k].solveId = 1
       /\ outbox[k].solutions # <<>>
  /\ solving
  /\ solutions = <<>>
  /\ solveStats = [totalCount |-> 0, duration |-> Null]
  /\ solverError = Null


(* -------------------------------- C31 ---------------------------------- *)

\* C31: in every reachable state of the store, solving = true implies that
\* solutions is empty: the results of a previous request are never held
\* while a new request is being solved.
C31_NoSolutionsWhileSolving == solving => solutions = <<>>

\* the second request is being solved after the store had applied the
\* COMPLETE of the first one, which carried solutions
C31_Witness ==
  /\ solving
  /\ currentSolveId = 2
  /\ \E k \in 1..outboxRead :
       /\ outbox[k].type = "COMPLETE"
       /\ outbox[k].solveId = 1
       /\ outbox[k].solutions # <<>>
  /\ \A k \in 1..Len(outbox) :
       "solveId" \in DOMAIN outbox[k] => outbox[k].solveId = 1


(* -------------------------------- C32 ---------------------------------- *)

\* C32: whenever the puzzle is incomplete (and the App component has run
\* its reactive block for the latest puzzle), the solutions store is empty:
\* no message fills it while the puzzle stays incomplete.
C32_IncompleteMeansNoSolutions ==
  (~IsPuzzleComplete(puzzleFields) /\ ~dirty) => solutions = <<>>


(* -------------------------------- C33 ---------------------------------- *)

\* C33: the total count always matches the solutions: every COMPLETE
\* message has totalCount equal to the length of its solutions list, and
\* whenever solveStats.duration is not null, solveStats.totalCount equals
\* the number of solutions held in the solutions store.
C33_TotalCountMatchesSolutions ==
  /\ \A k \in 1..Len(outbox) :
       outbox[k].type = "COMPLETE" => outbox[k].totalCount = Len(outbox[k].solutions)
  /\ solveStats.duration # Null => solveStats.totalCount = Len(solutions)


(* -------------------------------- C34 ---------------------------------- *)

\* a handler updates puzzleFields: the component is invalidated by it
FieldsUpdated == ~dirty /\ dirty'

\* C34: once auto-save is enabled, every update of puzzleFields that changes
\* the value of at least one slot sets playerSolution to the empty solution,
\* and an update that keeps all 12 values leaves playerSolution unchanged.
C34_SolutionResetOnPuzzleChange ==
  [][ (autoSaveEnabled /\ FieldsUpdated) =>
        IF puzzleFields' # puzzleFields
          THEN playerSolution' = <<>>
          ELSE playerSolution' = playerSolution ]_vars


(* -------------------------------- C35 ---------------------------------- *)

\* a step of the loaded page that is no update of puzzleFields: a click on a
\* letter, a backspace, a change of mode, the start or the end of a fetch
NoFieldsUpdate == mountPc # "start" /\ ~FieldsUpdated

\* the solutions an append can make of the empty solution
FirstLetters == { << <<letterIndex>> >> : letterIndex \in 0..11 }

RoundTrip(fields, solution) ==
  LoadedFromStorage([fields |-> BlankFields, solution |-> <<>>,
                     previous |-> <<>>, item |-> Saved(fields, solution)], FALSE)

\* the stored data is missing, is not valid JSON or does not have 12 fields
NothingToLoad ==
  \/ storage = Null
  \/ storage[1].text # "json"
  \/ Len(storage[1].fields) # NumSlots

\* C37: saving and loading round-trip: for every state with 12 puzzle
\* fields, savePuzzleToStorage followed by loadPuzzleFromStorage restores the
\* same puzzleFields and the same playerSolution; when the stored data is
\* missing, is not valid JSON or does not have 12 fields, loading leaves both
\* stores unchanged.
C37_SaveLoadRoundTrip ==
  /\ [](Len(puzzleFields) = NumSlots =>
          /\ RoundTrip(puzzleFields, playerSolution).fields = puzzleFields
          /\ RoundTrip(puzzleFields, playerSolution).solution = playerSolution)
  /\ [][ (mountPc = "start" /\ mountPc' # "start" /\ NothingToLoad) =>
           (puzzleFields' = puzzleFields /\ playerSolution' = playerSolution) ]_vars


(* -------------------------------- C38 ---------------------------------- *)

\* the letters of the pages of today's puzzle that carry game data
TodaysLetters == { FlatMapSplit(page.sides) : page \in { p \in TodaysPages : p.kind = "sides" } }

\* C38: choosing a puzzle loads it in play mode: after a sample puzzle or
\* today's puzzle is chosen successfully, puzzleFields holds its letters in
\* slot order and playMode is true; when loading today's puzzle fails (fetch
\* error or no puzzle data found), puzzleFields and playMode are unchanged
\* and loading is false again.
C38_ChosenPuzzleInPlayMode ==
  /\ [][ (loading /\ ~loading') =>
           \/ FieldsUpdated /\ puzzleFields' \in TodaysLetters /\ playMode'
           \/ puzzleFields' = puzzleFields /\ playMode' = playMode /\ dirty' = dirty ]_vars
  /\ [][ (FieldsUpdated /\ puzzleFields' \in ExamplePuzzles) => playMode' ]_vars

\* today's puzzle was asked for in solve mode and the page is still waiting
\* for it: the fetch can fail, find no game data or deliver the sides
C38_Witness ==
  /\ loading
  /\ ~playMode
  /\ puzzleFields \in ExamplePuzzles


(* -------------------------------- C39 ---------------------------------- *)

\* the number of words of the chain the solver serialized as a solution
WordsOf ==
  [solutionStr \in { SolutionString(chain) : chain \in Range(NeurotypicalChains) } |->
     Len(CHOOSE chain \in Range(NeurotypicalChains) : SolutionString(chain) = solutionStr)]

\* the positions of the flat list that hold the solution
FlatPositions(solutionStr) == {k \in DOMAIN solutions : solutions[k] = solutionStr}

\* C39: grouping the flat solution list by word count is a partition that
\* keeps the solver's order: every solution string appears in exactly one
\* group, the group's index equals the number of hyphen-separated words of
\* the solution, and within a group (and under the 'best' sort order) the
\* solutions keep their relative order of the flat list.
C39_GroupingKeepsOrder ==
  LET grouped == solutionsByWordCount
      places == UNION { {g} \X DOMAIN grouped[g] : g \in DOMAIN grouped }
  IN  /\ \A k \in DOMAIN solutions :
           Cardinality({ p \in places : grouped[p[1]][p[2]] = solutions[k] }) = 1
      /\ \A g \in DOMAIN grouped :
           /\ \A j \in DOMAIN grouped[g] : WordsOf[grouped[g][j]] = g
           /\ \A i, j \in DOMAIN grouped[g] :
                i < j => \E a \in FlatPositions(grouped[g][i]),
                            b \in FlatPositions(grouped[g][j]) : a < b
           /\ getSortedSolutions(grouped[g], "best") = grouped[g]

\* the store holds a one-word solution and, behind it, two two-word
\* solutions
C39_Witness ==
  /\ Len(solutions) = 3
  /\ DOMAIN solutionsByWordCount = {1, 2}
  /\ Len(solutionsByWordCount[2]) = 2

====
